---- MODULE Spec2Model ----
(***************************************************************************)
(* Model of the proof.holdings Go SDK core: the status-driven error        *)
(* taxonomy (errors.go), the HTTP transport with its retry/backoff loop    *)
(* (http.go) and the helpers they use.                                     *)
(*                                                                         *)
(* Durations are integers in milliseconds.  A Go pointer or interface that *)
(* may be nil is a sequence of length 0 (nil) or 1 (the value).            *)
(***************************************************************************)
EXTENDS Integers, Sequences, FiniteSets, TLC

VARIABLES
    \* ---- transport configuration (httpClient fields) ----
    maxRetries,     \* h.maxRetries
    urlOk,          \* whether h.baseURL + path parses as a URL
    \* ---- one logical call to httpClient.request ----
    pc,             \* "idle" | "send" | "wait" | "sleep" | "done"
    method,         \* HTTP method of the call
    path,           \* path argument of the call
    body,           \* request body argument: "nil" | "ok" | "unmarshalable"
    attempt,        \* loop variable of request
    lastErr,        \* lastErr local: None or Some(message)
    ctxDone,        \* ctx.Err() != nil
    hist,           \* outcome of every attempt issued so far, in order
    sleeps,         \* every time.Sleep performed so far, in order
    served,         \* number of requests the server has answered
    started,        \* number of client.Do calls made
    inFlight,       \* number of client.Do calls that have not returned
    finalBody,      \* None, or Some(respBody) of the response that ended the loop
    ret,            \* values returned by request: [result, err]
    \* ---- errorFromResponse applied to drawn inputs ----
    efStatus, efBody, efOut,
    \* ---- backoff applied to drawn inputs ----
    bkA, bkB, bkOut,
    \* ---- resolveWaitOptions applied to drawn inputs ----
    woOpts, woOut,
    \* ---- the terminal predicates applied to a drawn status ----
    tsStatus, tsOut,
    \* ---- concurrent calls to httpClient.request on one transport ----
    calls,          \* per call: its position, arguments and observations
    frames,         \* per stack frame: the locals attempt and lastErr
    \* ---- one call to pollUntilComplete ----
    ppc,            \* "idle" | "call" | "retrieve" | "wait" | "done"
    pKind,          \* which WaitForCompletion made the call
    pInterval,      \* interval local, ms
    pTimeout,       \* timeout local, ms
    pStart,         \* start local: the clock when the poll began
    now,            \* the clock, ms
    retrievals,     \* number of retrieve invocations
    waits,          \* number of interval waits that ran to the timer
    pollHist,       \* what every retrieve returned, in order
    ctxAtStart,     \* whether ctx was done when the poll began
    pret            \* values returned by pollUntilComplete: [result, err]

vars == <<maxRetries, urlOk, pc, method, path, body, attempt, lastErr,
          ctxDone, hist, sleeps, served, started, inFlight, finalBody, ret,
          efStatus, efBody, efOut, bkA, bkB, bkOut, woOpts, woOut,
          tsStatus, tsOut, calls, frames,
          ppc, pKind, pInterval, pTimeout, pStart, now, retrievals, waits,
          pollHist, ctxAtStart, pret>>

callVars == <<maxRetries, urlOk, pc, method, path, body, attempt, lastErr,
              ctxDone, hist, sleeps, served, started, inFlight, finalBody, ret>>
efVars == <<efStatus, efBody, efOut>>
bkVars == <<bkA, bkB, bkOut>>
woVars == <<woOpts, woOut>>
tsVars == <<tsStatus, tsOut>>
twoVars == <<calls, frames>>
pollVars == <<ppc, pKind, pInterval, pTimeout, pStart, now, retrievals, waits,
              pollHist, ctxAtStart, pret>>

----------------------------------------------------------------------------
(* Bounds *)

MaxRetriesBound == 2     \* largest maxRetries drawn for the transport
MinStatus == 100         \* smallest status code classified
MaxStatus == 599         \* largest status code classified
MaxAttempt == 12         \* largest attempt index given to backoff

----------------------------------------------------------------------------
(* Optional values *)

None == <<>>
Some(x) == <<x>>
IsSome(o) == Len(o) = 1
Get(o) == o[1]

Min(a, b) == IF a <= b THEN a ELSE b

----------------------------------------------------------------------------
(* errors.go *)

\* apiErrorBody values: Code and Message are strings ("" when the JSON field is
\* missing); Details is any; RequestID a string; RetryAfter and
\* RemainingAttempts are *int.
ApiErrorBodies ==
    [Code : {"", "invalid_param"},
     Message : {"", "Bad input"},
     Details : {None, Some("field=email")},
     RequestID : {"", "req_abc"},
     RetryAfter : {None, Some(0), Some(3600)},
     RemainingAttempts : {None, Some(0)}]

\* fmt.Sprintf("http_%d", statusCode)
DefaultCode(statusCode) == "http_" \o ToString(statusCode)

\* fmt.Sprintf("Request failed with status %d", statusCode)
DefaultMessage(statusCode) == "Request failed with status " \o ToString(statusCode)

\* BaseError with the body's message always taken, also when it is empty.
BaseError_MessageNotDefaulted(statusCode, apiErr) ==
    [Message |-> IF IsSome(apiErr)
                 THEN Get(apiErr).Message ELSE DefaultMessage(statusCode),
     Code |-> IF IsSome(apiErr) /\ Get(apiErr).Code # ""
              THEN Get(apiErr).Code ELSE DefaultCode(statusCode),
     StatusCode |-> statusCode,
     Details |-> IF IsSome(apiErr) THEN Get(apiErr).Details ELSE None,
     RequestID |-> IF IsSome(apiErr) THEN Get(apiErr).RequestID ELSE ""]

\* The ProofError value built at errors.go:42-64; apiErr is None or Some(body).
BaseError(statusCode, apiErr) ==
    [Message |-> IF IsSome(apiErr) /\ Get(apiErr).Message # ""
                 THEN Get(apiErr).Message ELSE DefaultMessage(statusCode),
     Code |-> IF IsSome(apiErr) /\ Get(apiErr).Code # ""
              THEN Get(apiErr).Code ELSE DefaultCode(statusCode),
     StatusCode |-> statusCode,
     Details |-> IF IsSome(apiErr) THEN Get(apiErr).Details ELSE None,
     RequestID |-> IF IsSome(apiErr) THEN Get(apiErr).RequestID ELSE ""]

\* VariantOf with the server-error test written > 500.
VariantOf_StrictServer(statusCode) ==
    CASE statusCode = 400 -> "ValidationError"
      [] statusCode = 401 -> "AuthenticationError"
      [] statusCode = 403 -> "ForbiddenError"
      [] statusCode = 404 -> "NotFoundError"
      [] statusCode = 409 -> "ConflictError"
      [] statusCode = 429 -> "RateLimitError"
      [] OTHER -> IF statusCode > 500 THEN "ServerError" ELSE "ProofError"

\* The Go type of the error returned by the switch at errors.go:66-89.
VariantOf(statusCode) ==
    CASE statusCode = 400 -> "ValidationError"
      [] statusCode = 401 -> "AuthenticationError"
      [] statusCode = 403 -> "ForbiddenError"
      [] statusCode = 404 -> "NotFoundError"
      [] statusCode = 409 -> "ConflictError"
      [] statusCode = 429 -> "RateLimitError"
      [] OTHER -> IF statusCode >= 500 THEN "ServerError" ELSE "ProofError"

\* errorFromResponse copying the lockout fields only when they are non-zero.
errorFromResponse_ZeroDropped(statusCode, apiErr) ==
    LET base == BaseError(statusCode, apiErr)
        variant == VariantOf(statusCode)
        nz(o) == IF IsSome(o) /\ Get(o) # 0 THEN o ELSE None
    IN  IF variant = "RateLimitError"
        THEN [variant |-> variant, base |-> base,
              RetryAfter |-> IF IsSome(apiErr) THEN nz(Get(apiErr).RetryAfter) ELSE None,
              RemainingAttempts |-> IF IsSome(apiErr)
                                    THEN nz(Get(apiErr).RemainingAttempts) ELSE None]
        ELSE [variant |-> variant, base |-> base]

\* An error value: its Go type and the fields that type has.  Only
\* RateLimitError has the RetryAfter and RemainingAttempts fields.
errorFromResponse(statusCode, apiErr) ==
    LET base == BaseError(statusCode, apiErr)
        variant == VariantOf(statusCode)
    IN  IF variant = "RateLimitError"
        THEN [variant |-> variant, base |-> base,
              RetryAfter |-> IF IsSome(apiErr) THEN Get(apiErr).RetryAfter ELSE None,
              RemainingAttempts |-> IF IsSome(apiErr)
                                    THEN Get(apiErr).RemainingAttempts ELSE None]
        ELSE [variant |-> variant, base |-> base]

----------------------------------------------------------------------------
(* http.go: backoff *)

backoffBaseMs == 1000
backoffMaxMs == 10000

\* math.Pow(2, float64(attempt)) for attempt >= 0
RECURSIVE Pow2(_)
Pow2(n) == IF n <= 0 THEN 1 ELSE 2 * Pow2(n - 1)

\* backoff without the ceiling.
backoff_Uncapped(a) == backoffBaseMs * Pow2(a)

\* httpClient.backoff, in milliseconds
backoff(a) == Min(backoffBaseMs * Pow2(a), backoffMaxMs)

----------------------------------------------------------------------------
(* http.go: the Retry-After header *)

\* A header value is a sequence of one-character strings; <<>> is the value
\* resp.Header.Get returns for a missing header.
DigitChars == {"0", "1", "2", "3", "4", "5", "6", "7", "8", "9"}

DigitVal(c) ==
    CASE c = "0" -> 0 [] c = "1" -> 1 [] c = "2" -> 2 [] c = "3" -> 3
      [] c = "4" -> 4 [] c = "5" -> 5 [] c = "6" -> 6 [] c = "7" -> 7
      [] c = "8" -> 8 [] c = "9" -> 9

RECURSIVE DigitsToInt(_)
DigitsToInt(ds) ==
    IF Len(ds) = 0 THEN 0
    ELSE 10 * DigitsToInt(SubSeq(ds, 1, Len(ds) - 1)) + DigitVal(ds[Len(ds)])

AllDigits(ds) == \A i \in 1..Len(ds) : ds[i] \in DigitChars

\* strconv.ParseFloat(ra, 64) on decimal literals [+-]digits[.digits]: ok is
\* err == nil, ms is the parsed number of seconds times 1000 (the first three
\* fractional digits).
ParseFloat(ra) ==
    LET signed == Len(ra) > 0 /\ ra[1] \in {"+", "-"}
        neg == Len(ra) > 0 /\ ra[1] = "-"
        mant == IF signed THEN Tail(ra) ELSE ra
        dots == {i \in 1..Len(mant) : mant[i] = "."}
        dot == IF dots = {} THEN Len(mant) + 1
               ELSE CHOOSE i \in dots : \A j \in dots : i <= j
        ip == SubSeq(mant, 1, dot - 1)
        fp == SubSeq(mant, dot + 1, Len(mant))
        fd(i) == IF i <= Len(fp) THEN DigitVal(fp[i]) ELSE 0
        ok == AllDigits(ip) /\ AllDigits(fp) /\ Len(ip) + Len(fp) > 0
        abs == IF ok THEN 1000 * DigitsToInt(ip) + 100 * fd(1) + 10 * fd(2) + fd(3)
               ELSE 0
    IN  [ok |-> ok, ms |-> IF neg THEN 0 - abs ELSE abs]

RetryAfterHeaders == {<<>>, <<"2">>, <<"0", ".", "5">>, <<"W", "e", "d">>}

----------------------------------------------------------------------------
(* http.go: response bodies *)

JStr(s) == [t |-> "string", v |-> s]
JNum(n) == [t |-> "number", v |-> n]
JNull == [t |-> "null"]

\* JSON objects found under the "error" key; a field is None when the key is
\* missing.
NoFields ==
    [code |-> None, message |-> None, details |-> None, request_id |-> None,
     retryAfter |-> None, remaining_attempts |-> None]

ErrorObjects ==
    {NoFields,
     [NoFields EXCEPT !.code = Some(JStr("invalid")), !.message = Some(JStr("Bad"))],
     [NoFields EXCEPT !.code = Some(JStr("")), !.message = Some(JStr("Bad")),
                      !.request_id = Some(JStr("req_abc"))],
     [NoFields EXCEPT !.code = Some(JStr("auth_lockout")),
                      !.details = Some(JStr("field=email")),
                      !.retryAfter = Some(JNum(3600)),
                      !.remaining_attempts = Some(JNum(0))],
     [NoFields EXCEPT !.message = Some(JStr("Slow down")),
                      !.retryAfter = Some(JNum(0)),
                      !.remaining_attempts = Some(JNull)]}

\* Values of the "error" key of a response object: missing, null, a string,
\* or an object.
ErrorFields ==
    {None, Some(JNull), Some(JStr("boom"))}
        \cup {Some([t |-> "object", v |-> o]) : o \in ErrorObjects}

\* Response bodies: no bytes, bytes that are not JSON, the JSON values null
\* and [], and JSON objects with keys "id" and "error".
RespBodies ==
    {[kind |-> "empty"], [kind |-> "garbage"], [kind |-> "null"], [kind |-> "array"]}
        \cup {[kind |-> "object", id |-> Some(JStr("ver_123")), error |-> None]}
        \cup {[kind |-> "object", id |-> None, error |-> e] : e \in ErrorFields}

EmptyMap == [kind |-> "object", id |-> None, error |-> None]

\* http.go:119-126: None is a nil map, Some(m) a non-nil map.  Unmarshal of a
\* JSON null leaves the nil map and reports no error.
ParseResponse(respBody) ==
    CASE respBody.kind = "empty" -> Some(EmptyMap)
      [] respBody.kind = "garbage" -> Some(EmptyMap)
      [] respBody.kind = "array" -> Some(EmptyMap)
      [] respBody.kind = "null" -> None
      [] OTHER -> Some(respBody)

\* json.Unmarshal of one key into a string field
StringField(f) == IF IsSome(f) /\ Get(f).t = "string" THEN Get(f).v ELSE ""

\* json.Unmarshal of one key into an any field
AnyField(f) == IF IsSome(f) /\ Get(f).t # "null" THEN Some(Get(f).v) ELSE None

\* json.Unmarshal of one key holding an integer or null into a *int field
IntPtrField(f) == IF IsSome(f) /\ Get(f).t = "number" THEN Some(Get(f).v) ELSE None

\* The lockout keys of the error object not read.
ExtractApiErr_NoLockout(result) ==
    IF ~IsSome(result) THEN None
    ELSE LET errData == Get(result).error
         IN  IF ~IsSome(errData) \/ Get(errData).t = "null" THEN None
             ELSE IF Get(errData).t # "object"
             THEN Some([Code |-> "", Message |-> "", Details |-> None,
                        RequestID |-> "", RetryAfter |-> None,
                        RemainingAttempts |-> None])
             ELSE LET o == Get(errData).v
                  IN  Some([Code |-> StringField(o.code),
                            Message |-> StringField(o.message),
                            Details |-> AnyField(o.details),
                            RequestID |-> StringField(o.request_id),
                            RetryAfter |-> None,
                            RemainingAttempts |-> None])

\* A string under "error" used as the message.
ExtractApiErr_StringAsMessage(result) ==
    IF ~IsSome(result) THEN None
    ELSE LET errData == Get(result).error
         IN  IF ~IsSome(errData) \/ Get(errData).t = "null" THEN None
             ELSE IF Get(errData).t # "object"
             THEN Some([Code |-> "", Message |-> StringField(errData), Details |-> None,
                        RequestID |-> "", RetryAfter |-> None,
                        RemainingAttempts |-> None])
             ELSE LET o == Get(errData).v
                  IN  Some([Code |-> StringField(o.code),
                            Message |-> StringField(o.message),
                            Details |-> AnyField(o.details),
                            RequestID |-> StringField(o.request_id),
                            RetryAfter |-> IntPtrField(o.retryAfter),
                            RemainingAttempts |-> IntPtrField(o.remaining_attempts)])

\* http.go:130-136: the apiErr handed to errorFromResponse.  A non-nil
\* "error" value that is not an object leaves a zero apiErrorBody.
ExtractApiErr(result) ==
    IF ~IsSome(result) THEN None
    ELSE LET errData == Get(result).error
         IN  IF ~IsSome(errData) \/ Get(errData).t = "null" THEN None
             ELSE IF Get(errData).t # "object"
             THEN Some([Code |-> "", Message |-> "", Details |-> None,
                        RequestID |-> "", RetryAfter |-> None,
                        RemainingAttempts |-> None])
             ELSE LET o == Get(errData).v
                  IN  Some([Code |-> StringField(o.code),
                            Message |-> StringField(o.message),
                            Details |-> AnyField(o.details),
                            RequestID |-> StringField(o.request_id),
                            RetryAfter |-> IntPtrField(o.retryAfter),
                            RemainingAttempts |-> IntPtrField(o.remaining_attempts)])

----------------------------------------------------------------------------
(* http.go: one call to httpClient.request *)

Methods == {"GET", "POST", "DELETE"}
Paths == {"/test"}

\* Status codes the server answers with.
RespStatuses == {200, 302, 400, 418, 429, 500, 503}

\* Statuses the server sends a Retry-After header with: 429 and the 5xx.
RetryAfterStatuses == {st \in RespStatuses : st = 429 \/ st >= 500}

\* err.Error() of a failed client.Do while the context is live: a refused
\* connection, and the expiry of http.Client.Timeout.
NetFailures == {"connection refused", "Client.Timeout exceeded"}

\* err.Error() of a client.Do that failed because the context is done.
CtxFailure == "context canceled"

NilRet == [result |-> None, err |-> None]

\* ProofError{Message: m, Code: c}: the other fields keep their zero values.
LocalError(variant, m, c) ==
    [variant |-> variant,
     base |-> [Message |-> m, Code |-> c, StatusCode |-> 0,
               Details |-> None, RequestID |-> ""]]

\* http.go:85-88
TimeoutErr(m, p) ==
    LocalError("TimeoutError", "Request to " \o m \o " " \o p \o " timed out", "timeout")

\* http.go:143-146
ExhaustedErr(le) ==
    LocalError("NetworkError",
               IF IsSome(le) THEN Get(le) ELSE "Network request failed",
               "network_error")

\* The marshal failure wrapped as a NetworkError.
MarshalErr_AsNetwork ==
    [variant |-> "NetworkError",
     base |-> [Message |-> "failed to marshal request body", Code |-> "network_error",
               StatusCode |-> 0, Details |-> None, RequestID |-> ""]]

\* http.go:67: the error made by fmt.Errorf, outside the taxonomy
MarshalErr == [variant |-> "errorString", text |-> "failed to marshal request body"]

\* Finalize classifying by the hundreds of the status only.
Finalize_StatusClass(status, respBody) ==
    LET result == ParseResponse(respBody)
    IN  IF status >= 400
        THEN [result |-> None,
              err |-> Some(errorFromResponse((status \div 100) * 100, ExtractApiErr(result)))]
        ELSE [result |-> result, err |-> None]

\* Finalize taking every status from 300 on for an error.
Finalize_RedirectIsError(status, respBody) ==
    LET result == ParseResponse(respBody)
    IN  IF status >= 300
        THEN [result |-> None,
              err |-> Some(errorFromResponse(status, ExtractApiErr(result)))]
        ELSE [result |-> result, err |-> None]

\* Finalize returning the parsed body next to the error.
Finalize_ResultWithError(status, respBody) ==
    LET result == ParseResponse(respBody)
    IN  IF status >= 400
        THEN [result |-> result,
              err |-> Some(errorFromResponse(status, ExtractApiErr(result)))]
        ELSE [result |-> result, err |-> None]

\* Finalize returning a fresh empty map instead of the parsed body.
Finalize_DropsBody(status, respBody) ==
    LET result == ParseResponse(respBody)
    IN  IF status >= 400
        THEN [result |-> None,
              err |-> Some(errorFromResponse(status, ExtractApiErr(result)))]
        ELSE [result |-> Some(EmptyMap), err |-> None]

\* http.go:118-140: the return values for a response that is not retried
Finalize(status, respBody) ==
    LET result == ParseResponse(respBody)
    IN  IF status >= 400
        THEN [result |-> None,
              err |-> Some(errorFromResponse(status, ExtractApiErr(result)))]
        ELSE [result |-> result, err |-> None]

\* A loop whose body runs once before the condition is looked at.
LoopCond_AtLeastOnce(a, mr) == a = 0 \/ a <= mr

\* http.go:62: the loop condition and the post statement of the for loop
LoopCond(a, mr) == a <= mr

\* The attempt index advanced by two.
NextAttempt_SkipsOne(a) == a + 2

\* The post statement left out: the attempt index never advances.
NextAttempt_Stuck(a) == a

NextAttempt(a) == a + 1

\* A 429 slept on and retried whatever attempts remain.
RetryOn429_Always(status, a, mr) == status = 429

\* http.go:101: a 429 is retried while attempts remain
RetryOn429(status, a, mr) == status = 429 /\ a < mr

\* RetryOn5xx retrying 500 only.
RetryOn5xx_Only500(status, a, mr) == status = 500 /\ a < mr

\* RetryOn5xx retrying every error status.
RetryOn5xx_From400(status, a, mr) == status >= 400 /\ a < mr

\* http.go:113: a status >= 500 is retried while attempts remain
RetryOn5xx(status, a, mr) == status >= 500 /\ a < mr

\* A failure of the last attempt always reported as a timeout.
FailureOutcome_LastIsTimeout(ctxErr, a, mr) ==
    IF ctxErr THEN "timeout" ELSE IF a < mr THEN "retry" ELSE "timeout"

\* FailureOutcome looking at the retry budget before the context.
FailureOutcome_RetryFirst(ctxErr, a, mr) ==
    IF a < mr THEN "retry" ELSE IF ctxErr THEN "timeout" ELSE "break"

\* http.go:84-94: what follows a failed client.Do; ctxErr is ctx.Err() != nil
FailureOutcome(ctxErr, a, mr) ==
    IF ctxErr THEN "timeout" ELSE IF a < mr THEN "retry" ELSE "break"

\* lastErr kept from the first failure.
RecordErr_KeepFirst(le, msg) == IF IsSome(le) THEN le ELSE Some(msg)

\* http.go:83: lastErr = err
RecordErr(le, msg) == Some(msg)

\* client.Do handing the request off and returning to the top of the loop.
AfterIssue_NoWait == "send"

\* http.go:81: client.Do blocks; the call waits for the outcome of the attempt
AfterIssue == "wait"

\* SleepOn429 never reading the header.
SleepOn429_IgnoresHeader(ra, a) ==
    [after |-> a, kind |-> "backoff", ms |-> backoff(a)]

\* http.go:102-108: the time.Sleep performed before retrying a 429
SleepOn429(ra, a) ==
    IF ra # <<>> /\ ParseFloat(ra).ok
    THEN [after |-> a, kind |-> "retryAfter", ms |-> ParseFloat(ra).ms]
    ELSE [after |-> a, kind |-> "backoff", ms |-> backoff(a)]

\* The backoff of the attempt about to be made.
SleepBackoff_NextAttempt(a) == [after |-> a, kind |-> "backoff", ms |-> backoff(a + 1)]

\* http.go:91 and 114
SleepBackoff(a) == [after |-> a, kind |-> "backoff", ms |-> backoff(a)]

\* get, post and del (http.go:39-49) entering request (http.go:51-62): get and
\* del pass a nil body, post a body.  A base URL that does not parse ends the
\* call; a negative maxRetries skips the loop.
Request(m, p, b) ==
    /\ pc = "idle"
    /\ (b = "nil") <=> (m # "POST")
    /\ method' = m /\ path' = p /\ body' = b
    /\ attempt' = 0
    /\ IF ~urlOk
       THEN /\ pc' = "done"
            /\ ret' = [result |-> None,
                       err |-> Some(LocalError("NetworkError", "parse error", "network_error"))]
       ELSE IF LoopCond(0, maxRetries)
       THEN pc' = "send" /\ ret' = ret
       ELSE pc' = "done" /\ ret' = [result |-> None, err |-> Some(ExhaustedErr(lastErr))]
    /\ UNCHANGED <<maxRetries, urlOk, lastErr, ctxDone, hist, sleeps, served,
                   started, inFlight, finalBody>>

\* http.go:64-70: json.Marshal of the body fails; nothing is sent.
SendMarshalFails ==
    /\ pc = "send"
    /\ body = "unmarshalable"
    /\ pc' = "done"
    /\ ret' = [result |-> None, err |-> Some(MarshalErr)]
    /\ UNCHANGED <<maxRetries, urlOk, method, path, body, attempt, lastErr,
                   ctxDone, hist, sleeps, served, started, inFlight, finalBody>>

\* http.go:72-81: the request is built and client.Do is called.
Issue ==
    /\ pc = "send"
    /\ body # "unmarshalable"
    /\ started' = started + 1
    /\ inFlight' = inFlight + 1
    /\ pc' = AfterIssue
    /\ UNCHANGED <<maxRetries, urlOk, method, path, body, attempt, lastErr,
                   ctxDone, hist, sleeps, served, finalBody, ret>>

\* http.go:81-95: client.Do fails with message msg; ctxErr is the value of
\* ctx.Err() != nil read afterwards.  A context that was done before the send
\* makes client.Do fail with the context's error.
SendFails(msg, ctxErr) ==
    /\ pc = "wait"
    /\ inFlight' = inFlight - 1
    /\ ctxDone => ctxErr /\ msg = CtxFailure
    /\ msg = CtxFailure => ctxErr
    /\ ctxDone' = ctxErr
    /\ lastErr' = RecordErr(lastErr, msg)
    /\ hist' = Append(hist, [kind |-> "fail", ctx |-> ctxErr, msg |-> msg])
    /\ LET outcome == FailureOutcome(ctxErr, attempt, maxRetries)
       IN  CASE outcome = "timeout" ->
                    /\ sleeps' = sleeps
                    /\ pc' = "done"
                    /\ ret' = [result |-> None, err |-> Some(TimeoutErr(method, path))]
             [] outcome = "retry" ->
                    /\ sleeps' = Append(sleeps, SleepBackoff(attempt))
                    /\ pc' = "sleep"
                    /\ ret' = ret
             [] OTHER ->
                    /\ sleeps' = sleeps
                    /\ pc' = "done"
                    /\ ret' = [result |-> None, err |-> Some(ExhaustedErr(lastErr'))]
    /\ UNCHANGED <<maxRetries, urlOk, method, path, body, attempt, served, started,
                   finalBody>>

\* A client.Do that does not look at the request's context.
DoSeesContext_Ignored(done) == FALSE

\* http.go:72-81: the request carries ctx, so client.Do cannot return a
\* response once ctx is done.
DoSeesContext(done) == done

\* http.go:97-140: client.Do returns a response.
SendResponds(status, ra, respBody) ==
    /\ pc = "wait"
    /\ inFlight' = inFlight - 1
    /\ ~DoSeesContext(ctxDone)
    /\ served' = served + 1
    /\ hist' = Append(hist, [kind |-> "resp", status |-> status, ra |-> ra])
    /\ IF RetryOn429(status, attempt, maxRetries)
       THEN /\ sleeps' = Append(sleeps, SleepOn429(ra, attempt))
            /\ pc' = "sleep"
            /\ UNCHANGED <<ret, finalBody>>
       ELSE IF RetryOn5xx(status, attempt, maxRetries)
       THEN /\ sleeps' = Append(sleeps, SleepBackoff(attempt))
            /\ pc' = "sleep"
            /\ UNCHANGED <<ret, finalBody>>
       ELSE /\ sleeps' = sleeps
            /\ pc' = "done"
            /\ finalBody' = Some(respBody)
            /\ ret' = Finalize(status, respBody)
    /\ UNCHANGED <<maxRetries, urlOk, method, path, body, attempt, lastErr, ctxDone,
                   started>>

\* time.Sleep returns (it does not watch the context) and the continue
\* statement runs the loop's post statement and condition; when the condition
\* fails the loop is left for http.go:143-146.
Wake ==
    /\ pc = "sleep"
    /\ attempt' = NextAttempt(attempt)
    /\ IF LoopCond(NextAttempt(attempt), maxRetries)
       THEN pc' = "send" /\ ret' = ret
       ELSE pc' = "done" /\ ret' = [result |-> None, err |-> Some(ExhaustedErr(lastErr))]
    /\ UNCHANGED <<maxRetries, urlOk, method, path, body, lastErr, ctxDone,
                   hist, sleeps, served, started, inFlight, finalBody>>

\* The caller cancels the context, or its deadline passes.
Cancel ==
    /\ pc # "done"
    /\ ~ctxDone
    /\ ctxDone' = TRUE
    /\ UNCHANGED <<maxRetries, urlOk, pc, method, path, body, attempt, lastErr,
                   hist, sleeps, served, started, inFlight, finalBody, ret>>

\* The state of a call that has not started.
CallIdle ==
    /\ pc = "idle"
    /\ method = "" /\ path = "" /\ body = "nil"
    /\ attempt = 0
    /\ lastErr = None
    /\ ctxDone = FALSE
    /\ hist = <<>>
    /\ sleeps = <<>>
    /\ served = 0
    /\ started = 0
    /\ inFlight = 0
    /\ finalBody = None
    /\ ret = NilRet

EfIdle == efStatus = 0 /\ efBody = None /\ efOut = None
BkIdle == bkA = 0 /\ bkB = 0 /\ bkOut = None
WoIdle == woOpts = None /\ woOut = None
TsIdle == tsStatus = "" /\ tsOut = None
TwoIdle == calls = <<>> /\ frames = <<>>

\* The state when pollUntilComplete has not been called.
PollIdle ==
    /\ ppc = "idle"
    /\ pKind = ""
    /\ pInterval = 0 /\ pTimeout = 0
    /\ pStart = 0
    /\ now = 0
    /\ retrievals = 0
    /\ waits = 0
    /\ pollHist = <<>>
    /\ ctxAtStart = FALSE
    /\ pret = NilRet

\* newHTTPClient (http.go:29-37) stores the configuration, maxRetries
\* unvalidated (client.go:53-56); no call is running.
Init ==
    /\ maxRetries \in (-1)..MaxRetriesBound
    /\ urlOk \in BOOLEAN
    /\ CallIdle
    /\ EfIdle
    /\ BkIdle
    /\ WoIdle
    /\ TsIdle
    /\ TwoIdle
    /\ PollIdle

Next ==
    \/ \E m \in Methods, p \in Paths, b \in {"nil", "ok", "unmarshalable"} :
            Request(m, p, b) /\ UNCHANGED <<efVars, bkVars, woVars, tsVars, twoVars, pollVars>>
    \/ SendMarshalFails /\ UNCHANGED <<efVars, bkVars, woVars, tsVars, twoVars, pollVars>>
    \/ Issue /\ UNCHANGED <<efVars, bkVars, woVars, tsVars, twoVars, pollVars>>
    \/ \E msg \in NetFailures \cup {CtxFailure}, ctxErr \in BOOLEAN :
            SendFails(msg, ctxErr) /\ UNCHANGED <<efVars, bkVars, woVars, tsVars, twoVars, pollVars>>
    \/ \E status \in RespStatuses, ra \in RetryAfterHeaders, respBody \in RespBodies :
            /\ status \notin RetryAfterStatuses => ra = <<>>
            /\ SendResponds(status, ra, respBody)
            /\ UNCHANGED <<efVars, bkVars, woVars, tsVars, twoVars, pollVars>>
    \/ Wake /\ UNCHANGED <<efVars, bkVars, woVars, tsVars, twoVars, pollVars>>
    \/ Cancel /\ UNCHANGED <<efVars, bkVars, woVars, tsVars, twoVars, pollVars>>

Spec == Init /\ [][Next]_vars

----------------------------------------------------------------------------
(* errorFromResponse applied to every status and body *)

InitErrors ==
    /\ maxRetries = 0 /\ urlOk = TRUE
    /\ CallIdle
    /\ efStatus \in MinStatus..MaxStatus
    /\ efBody \in {None} \cup {Some(b) : b \in ApiErrorBodies}
    /\ efOut = None
    /\ BkIdle
    /\ WoIdle
    /\ TsIdle
    /\ TwoIdle
    /\ PollIdle

Classify ==
    /\ efOut = None
    /\ efOut' = Some(errorFromResponse(efStatus, efBody))
    /\ UNCHANGED <<efStatus, efBody, callVars, bkVars, woVars, tsVars, twoVars, pollVars>>

NextErrors == Classify

SpecErrors == InitErrors /\ [][NextErrors]_vars

----------------------------------------------------------------------------
(* backoff applied to pairs of attempt indices *)

InitBackoff ==
    /\ maxRetries \in 0..MaxRetriesBound /\ urlOk = TRUE
    /\ CallIdle
    /\ EfIdle
    /\ bkA \in 0..MaxAttempt
    /\ bkB \in 0..MaxAttempt
    /\ bkOut = None
    /\ WoIdle
    /\ TsIdle
    /\ TwoIdle
    /\ PollIdle

ComputeBackoff ==
    /\ bkOut = None
    /\ bkOut' = Some(<<backoff(bkA), backoff(bkB)>>)
    /\ UNCHANGED <<bkA, bkB, callVars, efVars, woVars, tsVars, twoVars, pollVars>>

NextBackoff == ComputeBackoff

SpecBackoff == InitBackoff /\ [][NextBackoff]_vars

----------------------------------------------------------------------------
(* client.go: resolveWaitOptions applied to drawn options *)

WaitOverrideBound == 5   \* overrides of -WaitOverrideBound..WaitOverrideBound ms are drawn

DefaultInterval == 3000        \* 3 * time.Second
DefaultPollTimeout == 600000   \* 10 * time.Minute

\* An override of zero taken as given.
resolveWaitOptions_ZeroKept(opts) ==
    [interval |-> IF IsSome(opts) /\ Get(opts).Interval >= 0
                  THEN Get(opts).Interval ELSE DefaultInterval,
     timeout |-> IF IsSome(opts) /\ Get(opts).Timeout >= 0
                 THEN Get(opts).Timeout ELSE DefaultPollTimeout]

\* client.go:20-32
resolveWaitOptions(opts) ==
    [interval |-> IF IsSome(opts) /\ Get(opts).Interval > 0
                  THEN Get(opts).Interval ELSE DefaultInterval,
     timeout |-> IF IsSome(opts) /\ Get(opts).Timeout > 0
                 THEN Get(opts).Timeout ELSE DefaultPollTimeout]

\* Durations given as overrides: small ones around zero, the values of
\* client_test.go and the defaults themselves.
OverrideDurations ==
    ((0 - WaitOverrideBound)..WaitOverrideBound)
        \cup {1000, 30000, DefaultInterval, DefaultPollTimeout}

\* *WaitOptions: nil, or a struct with both fields.
WaitOptionValues ==
    {None} \cup {Some([Interval |-> i, Timeout |-> t]) :
                    i \in OverrideDurations, t \in OverrideDurations}

InitWait ==
    /\ maxRetries = 0 /\ urlOk = TRUE
    /\ CallIdle
    /\ EfIdle
    /\ BkIdle
    /\ woOpts \in WaitOptionValues
    /\ woOut = None
    /\ TsIdle
    /\ TwoIdle
    /\ PollIdle

ResolveWait ==
    /\ woOut = None
    /\ woOut' = Some(resolveWaitOptions(woOpts))
    /\ UNCHANGED <<woOpts, callVars, efVars, bkVars, tsVars, twoVars, pollVars>>

NextWait == ResolveWait

SpecWait == InitWait /\ [][NextWait]_vars

----------------------------------------------------------------------------
(* polling.go: one call to pollUntilComplete made by a WaitForCompletion,  *)
(* whose retrieve is a GET through the transport                           *)

MaxPolls == 4            \* retrievals followed in one poll
PollRetriesBound == 1    \* largest maxRetries drawn for a poll

\* The three WaitForCompletion methods.
Pollers == {"verification", "request", "session"}

\* The verification predicate without "revoked".
isTerminalVerificationStatus_NoRevoked(s) == s \in {"verified", "failed", "expired"}

\* verifications.go:91-93
isTerminalVerificationStatus(s) == s \in {"verified", "failed", "expired", "revoked"}

\* verification_requests.go:55-57
isTerminalRequestStatus(s) == s \in {"completed", "expired", "cancelled"}

\* verification_requests.go:92-94
isTerminalSessionStatus(s) == s \in {"verified", "failed", "expired"}

\* A predicate that also takes the empty status for terminal.
isTerminal_EmptyDone(kind, s) ==
    \/ s = ""
    \/ CASE kind = "verification" -> isTerminalVerificationStatus(s)
          [] kind = "request" -> isTerminalRequestStatus(s)
          [] OTHER -> isTerminalSessionStatus(s)

\* The isTerminal argument each caller passes.
isTerminal(kind, s) ==
    CASE kind = "verification" -> isTerminalVerificationStatus(s)
      [] kind = "request" -> isTerminalRequestStatus(s)
      [] OTHER -> isTerminalSessionStatus(s)

PollId == "ver_1"

\* The label argument each caller passes.
PollLabel(kind) ==
    CASE kind = "verification" -> "Verification " \o PollId
      [] kind = "request" -> "Verification request " \o PollId
      [] OTHER -> "Session " \o PollId

\* The path each caller's Retrieve gets.
PollPath(kind) ==
    CASE kind = "verification" -> "/api/v1/verifications/" \o PollId
      [] kind = "request" -> "/api/v1/verification-requests/" \o PollId
      [] OTHER -> "/api/v1/sessions/" \o PollId

\* Options the callers pass: nil, both fields set, and the interval left zero.
PollOptions ==
    {None,
     Some([Interval |-> 10, Timeout |-> 30]),
     Some([Interval |-> 0, Timeout |-> 1500])}

\* Bodies the server gives a Retrieve: null, and objects whose "status" key
\* is a non-terminal string, a terminal string, or a number.
PollBodies ==
    {[kind |-> "null"]}
        \cup {[kind |-> "object", id |-> Some(JStr(PollId)), error |-> None, status |-> s] :
                s \in {Some(JStr("pending")), Some(JStr("verified")),
                       Some(JStr("completed")), Some(JNum(1))}}

PollStatuses == {200, 404, 503}
PollFailures == {"connection refused", CtxFailure}

\* polling.go:28: resource["status"].(string); a nil map, a missing key and
\* a value that is not a string all give "".
StatusOf(result) ==
    IF IsSome(result) /\ "status" \in DOMAIN Get(result)
    THEN StringField(Get(result).status)
    ELSE ""

\* Digits after the decimal point of the seconds, trailing zeros dropped.
FracString(f) ==
    IF f = 0 THEN ""
    ELSE IF f % 100 = 0 THEN "." \o ToString(f \div 100)
    ELSE IF f % 10 = 0
         THEN "." \o (IF f < 100 THEN "0" ELSE "") \o ToString(f \div 10)
    ELSE "." \o (IF f < 10 THEN "00" ELSE IF f < 100 THEN "0" ELSE "") \o ToString(f)

\* polling.go:35: the %s verb prints time.Duration.String() of a duration
\* >= 0 given in ms.
DurationString(ms) ==
    IF ms = 0 THEN "0s"
    ELSE IF ms < 1000 THEN ToString(ms) \o "ms"
    ELSE LET h == ms \div 3600000
             m == (ms % 3600000) \div 60000
             sec == ToString((ms % 60000) \div 1000) \o FracString(ms % 1000) \o "s"
         IN  IF h > 0 THEN ToString(h) \o "h" \o ToString(m) \o "m" \o sec
             ELSE IF m > 0 THEN ToString(m) \o "m" \o sec
             ELSE sec

\* The message without the last status.
PollTimeoutErr_NoStatus(label, timeout, status) ==
    LocalError("PollingTimeoutError",
               label \o " did not complete within " \o DurationString(timeout),
               "polling_timeout")

\* The timeout reported as a plain error value.
PollTimeoutErr_Unclassified(label, timeout, status) ==
    [variant |-> "errorString",
     text |-> label \o " did not complete within " \o DurationString(timeout)]

\* polling.go:34-37
PollTimeoutErr(label, timeout, status) ==
    LocalError("PollingTimeoutError",
               label \o " did not complete within " \o DurationString(timeout)
                     \o " (last status: " \o status \o ")",
               "polling_timeout")

\* ctx.Err() of a cancelled context, outside the taxonomy
CtxErr == [variant |-> "contextError", text |-> "context canceled"]

\* A failed retrieval followed by the interval wait and another retrieval
\* while the timeout has not elapsed.
PollOutcome_RetriesError(failed, status, elapsed, timeout, kind) ==
    IF failed
    THEN IF elapsed >= timeout THEN "error" ELSE "wait"
    ELSE IF isTerminal(kind, status) THEN "terminal"
    ELSE IF elapsed >= timeout THEN "timeout"
    ELSE "wait"

\* The timeout tested before the status.
PollOutcome_TimeoutFirst(failed, status, elapsed, timeout, kind) ==
    IF failed THEN "error"
    ELSE IF elapsed >= timeout THEN "timeout"
    ELSE IF isTerminal(kind, status) THEN "terminal"
    ELSE "wait"

\* polling.go:24-38: what the loop does with one return of retrieve
\* The timeout looked at before anything else.
PollOutcome_TimeoutBeforeAll(failed, status, elapsed, timeout, kind) ==
    IF elapsed >= timeout THEN "timeout"
    ELSE IF failed THEN "error"
    ELSE IF isTerminal(kind, status) THEN "terminal"
    ELSE "wait"

\* The timeout taken as reached at half its length.
PollOutcome_EarlyTimeout(failed, status, elapsed, timeout, kind) ==
    IF failed THEN "error"
    ELSE IF isTerminal(kind, status) THEN "terminal"
    ELSE IF 2 * elapsed >= timeout THEN "timeout"
    ELSE "wait"

\* The timeout reached only when the elapsed time is past it.
PollOutcome_StrictlyAfter(failed, status, elapsed, timeout, kind) ==
    IF failed THEN "error"
    ELSE IF isTerminal(kind, status) THEN "terminal"
    ELSE IF elapsed > timeout THEN "timeout"
    ELSE "wait"

\* The loop stopped only past twice the timeout.
PollOutcome_DoubleTimeout(failed, status, elapsed, timeout, kind) ==
    IF failed THEN "error"
    ELSE IF isTerminal(kind, status) THEN "terminal"
    ELSE IF elapsed > 2 * timeout THEN "timeout"
    ELSE "wait"

\* The elapsed time never compared with the timeout.
PollOutcome_NoTimeout(failed, status, elapsed, timeout, kind) ==
    IF failed THEN "error"
    ELSE IF isTerminal(kind, status) THEN "terminal"
    ELSE "wait"

PollOutcome(failed, status, elapsed, timeout, kind) ==
    IF failed THEN "error"
    ELSE IF isTerminal(kind, status) THEN "terminal"
    ELSE IF elapsed >= timeout THEN "timeout"
    ELSE "wait"

\* polling.go:19-20: the options are resolved and the start time is read.
PollStart(kind, opts) ==
    /\ ppc = "idle"
    /\ pc = "idle"
    /\ pKind' = kind
    /\ pInterval' = resolveWaitOptions(opts).interval
    /\ pTimeout' = resolveWaitOptions(opts).timeout
    /\ pStart' = now
    /\ ctxAtStart' = ctxDone
    /\ ppc' = "call"
    /\ UNCHANGED <<now, retrievals, waits, pollHist, pret>>

\* polling.go:23: retrieve(ctx), which is h.get(ctx, path, nil).
PollRetrieve ==
    /\ ppc = "call"
    /\ retrievals < MaxPolls
    /\ Request("GET", PollPath(pKind), "nil")
    /\ retrievals' = retrievals + 1
    /\ ppc' = "retrieve"
    /\ UNCHANGED <<pKind, pInterval, pTimeout, pStart, now, waits, pollHist,
                   ctxAtStart, pret>>

\* polling.go:23-38: retrieve has returned; the loop returns the error, the
\* terminal resource or the timeout error, or goes on to the select.
PollCheck ==
    /\ ppc = "retrieve"
    /\ pc = "done"
    /\ pollHist' = Append(pollHist, ret)
    /\ LET status == StatusOf(ret.result)
           outcome == PollOutcome(IsSome(ret.err), status, now - pStart, pTimeout, pKind)
       IN  CASE outcome = "error" ->
                    /\ ppc' = "done"
                    /\ pret' = [result |-> None, err |-> ret.err]
             [] outcome = "terminal" ->
                    /\ ppc' = "done"
                    /\ pret' = [result |-> ret.result, err |-> None]
             [] outcome = "timeout" ->
                    /\ ppc' = "done"
                    /\ pret' = [result |-> None,
                                err |-> Some(PollTimeoutErr(PollLabel(pKind), pTimeout, status))]
             [] OTHER ->
                    /\ ppc' = "wait"
                    /\ pret' = pret
    /\ UNCHANGED <<pKind, pInterval, pTimeout, pStart, now, retrievals, waits,
                   ctxAtStart, callVars>>

\* A select that only waits for the timer.
SelectCase_TimerOnly(done) == "timer"

\* polling.go:40-44: the case the select takes; the interval is > 0, so with
\* the context done its channel is the one that is ready.
SelectCase(done) == IF done THEN "ctx" ELSE "timer"

\* polling.go:43: the timer of time.After(interval) fires and the loop goes
\* round; the locals of the finished request are gone.  When the context
\* ends at the instant the timer fires and select takes the timer, the state
\* is the one of a context ending just after the timer.
WaitTimer ==
    /\ ppc = "wait"
    /\ SelectCase(ctxDone) = "timer"
    /\ now' = now + pInterval
    /\ waits' = waits + 1
    /\ ppc' = "call"
    /\ pc' = "idle"
    /\ method' = "" /\ path' = "" /\ body' = "nil"
    /\ attempt' = 0
    /\ lastErr' = None
    /\ hist' = <<>>
    /\ sleeps' = <<>>
    /\ served' = 0
    /\ started' = 0
    /\ finalBody' = None
    /\ ret' = NilRet
    /\ UNCHANGED <<maxRetries, urlOk, ctxDone, inFlight, pKind, pInterval, pTimeout,
                   pStart, retrievals, pollHist, ctxAtStart, pret>>

\* polling.go:41-42: ctx.Done() is ready; the wait ends with ctx.Err().
WaitCtx ==
    /\ ppc = "wait"
    /\ SelectCase(ctxDone) = "ctx"
    /\ ppc' = "done"
    /\ pret' = [result |-> None, err |-> Some(CtxErr)]
    /\ UNCHANGED <<pKind, pInterval, pTimeout, pStart, now, retrievals, waits,
                   pollHist, ctxAtStart, callVars>>

\* The caller cancels the context of the poll, or its deadline passes.
PollCancel ==
    /\ ppc # "done"
    /\ ~ctxDone
    /\ ctxDone' = TRUE
    /\ UNCHANGED <<maxRetries, urlOk, pc, method, path, body, attempt, lastErr,
                   hist, sleeps, served, started, inFlight, finalBody, ret, pollVars>>

\* time.Sleep(d) of the transport returns after d, at once when d <= 0.
WakeAfterSleep ==
    /\ Wake
    /\ now' = now + (IF sleeps[Len(sleeps)].ms > 0 THEN sleeps[Len(sleeps)].ms ELSE 0)
    /\ UNCHANGED <<ppc, pKind, pInterval, pTimeout, pStart, retrievals, waits,
                   pollHist, ctxAtStart, pret>>

\* A call of get, post or del made by a method that does not poll
\* (verifications.go:71-78).
DirectCall(m, p, b) ==
    /\ ppc = "idle"
    /\ Request(m, p, b)

InitPoll ==
    /\ maxRetries \in (-1)..PollRetriesBound
    /\ urlOk \in BOOLEAN
    /\ CallIdle
    /\ EfIdle
    /\ BkIdle
    /\ WoIdle
    /\ TsIdle
    /\ TwoIdle
    /\ PollIdle

NextPoll ==
    \/ \E m \in Methods, p \in Paths, b \in {"nil", "ok", "unmarshalable"} :
            DirectCall(m, p, b) /\ UNCHANGED <<efVars, bkVars, woVars, tsVars, twoVars, pollVars>>
    \/ SendMarshalFails /\ UNCHANGED <<efVars, bkVars, woVars, tsVars, twoVars, pollVars>>
    \/ \E kind \in Pollers, opts \in PollOptions :
            PollStart(kind, opts) /\ UNCHANGED <<callVars, efVars, bkVars, woVars, tsVars, twoVars>>
    \/ PollRetrieve /\ UNCHANGED <<efVars, bkVars, woVars, tsVars, twoVars>>
    \/ Issue /\ UNCHANGED <<efVars, bkVars, woVars, tsVars, twoVars, pollVars>>
    \/ \E msg \in PollFailures, ctxErr \in BOOLEAN :
            SendFails(msg, ctxErr) /\ UNCHANGED <<efVars, bkVars, woVars, tsVars, twoVars, pollVars>>
    \/ \E status \in PollStatuses, respBody \in PollBodies :
            SendResponds(status, <<>>, respBody)
                /\ UNCHANGED <<efVars, bkVars, woVars, tsVars, twoVars, pollVars>>
    \/ WakeAfterSleep /\ UNCHANGED <<efVars, bkVars, woVars, tsVars, twoVars>>
    \/ PollCheck /\ UNCHANGED <<efVars, bkVars, woVars, tsVars, twoVars>>
    \/ WaitTimer /\ UNCHANGED <<efVars, bkVars, woVars, tsVars, twoVars>>
    \/ WaitCtx /\ UNCHANGED <<efVars, bkVars, woVars, tsVars, twoVars>>
    \/ PollCancel /\ UNCHANGED <<efVars, bkVars, woVars, tsVars, twoVars>>

SpecPoll == InitPoll /\ [][NextPoll]_vars

\* The options under which the timeout of polling.go:33 is reached within the
\* retrievals followed: each wait of polling.go:40-44 adds the interval.
LiveOptions ==
    {o \in PollOptions :
        resolveWaitOptions(o).timeout
            <= (MaxPolls - 1) * resolveWaitOptions(o).interval}

\* Bodies the server gives a Retrieve: those of PollBodies and an object
\* with no "status" key.
LiveBodies ==
    PollBodies \cup {[kind |-> "object", id |-> Some(JStr(PollId)), error |-> None]}

\* The steps the running program takes by itself (polling.go:22-45 and
\* http.go:75-146): the retrieval is called, the request is issued, the
\* transport answers or fails, a sleep ends, the loop looks at what came
\* back, the timer or the context ends the select.
PollStep ==
    \/ PollRetrieve /\ UNCHANGED <<efVars, bkVars, woVars, tsVars, twoVars>>
    \/ Issue /\ UNCHANGED <<efVars, bkVars, woVars, tsVars, twoVars, pollVars>>
    \/ \E msg \in PollFailures, ctxErr \in BOOLEAN :
            SendFails(msg, ctxErr) /\ UNCHANGED <<efVars, bkVars, woVars, tsVars, twoVars, pollVars>>
    \/ \E status \in PollStatuses, respBody \in LiveBodies :
            SendResponds(status, <<>>, respBody)
                /\ UNCHANGED <<efVars, bkVars, woVars, tsVars, twoVars, pollVars>>
    \/ WakeAfterSleep /\ UNCHANGED <<efVars, bkVars, woVars, tsVars, twoVars>>
    \/ PollCheck /\ UNCHANGED <<efVars, bkVars, woVars, tsVars, twoVars>>
    \/ WaitTimer /\ UNCHANGED <<efVars, bkVars, woVars, tsVars, twoVars>>
    \/ WaitCtx /\ UNCHANGED <<efVars, bkVars, woVars, tsVars, twoVars>>

NextPollLive ==
    \/ \E kind \in Pollers, opts \in LiveOptions :
            PollStart(kind, opts) /\ UNCHANGED <<callVars, efVars, bkVars, woVars, tsVars, twoVars>>
    \/ PollStep
    \/ PollCancel /\ UNCHANGED <<efVars, bkVars, woVars, tsVars, twoVars>>

\* Every retrieval returns and time advances: a step the program can take
\* is taken.  The caller is free to cancel or not.
SpecPollLive == InitPoll /\ [][NextPollLive]_vars /\ WF_vars(PollStep)

----------------------------------------------------------------------------
(* The three terminal predicates applied to a drawn status *)

\* Statuses given to the predicates: the names the predicates know, names
\* of other states, the empty string, and near misses in case, spelling and
\* spacing.
StatusStrings ==
    {"verified", "failed", "expired", "revoked", "completed", "cancelled",
     "pending", "", "processing", "Verified", "canceled", "complete",
     "expired ", "revoke"}

NoVerdicts == [verification |-> None, session |-> None, request |-> None]

InitTerminal ==
    /\ maxRetries = 0 /\ urlOk = TRUE
    /\ CallIdle
    /\ EfIdle
    /\ BkIdle
    /\ WoIdle
    /\ tsStatus \in StatusStrings
    /\ tsOut = Some(NoVerdicts)
    /\ TwoIdle
    /\ PollIdle

\* verifications.go:91-93 applied
TerminalVerification ==
    /\ Get(tsOut).verification = None
    /\ tsOut' = Some([Get(tsOut) EXCEPT
                        !.verification = Some(isTerminalVerificationStatus(tsStatus))])
    /\ UNCHANGED <<tsStatus, callVars, efVars, bkVars, woVars, twoVars, pollVars>>

\* verification_requests.go:92-94 applied
TerminalSession ==
    /\ Get(tsOut).session = None
    /\ tsOut' = Some([Get(tsOut) EXCEPT
                        !.session = Some(isTerminalSessionStatus(tsStatus))])
    /\ UNCHANGED <<tsStatus, callVars, efVars, bkVars, woVars, twoVars, pollVars>>

\* verification_requests.go:55-57 applied
TerminalRequest ==
    /\ Get(tsOut).request = None
    /\ tsOut' = Some([Get(tsOut) EXCEPT
                        !.request = Some(isTerminalRequestStatus(tsStatus))])
    /\ UNCHANGED <<tsStatus, callVars, efVars, bkVars, woVars, twoVars, pollVars>>

NextTerminal ==
    \/ TerminalVerification
    \/ TerminalSession
    \/ TerminalRequest

SpecTerminal == InitTerminal /\ [][NextTerminal]_vars

----------------------------------------------------------------------------
(* http.go: calls to httpClient.request running at once on one transport,  *)
(* each with a live context                                                *)

TwoRetriesBound == 1     \* largest maxRetries drawn for the two calls

\* Two calls, made by two goroutines.
CallIds == {1, 2}

TwoStatuses == {200, 429, 503}
TwoBodies == {[kind |-> "empty"],
              [kind |-> "object", id |-> Some(JStr("ver_123")), error |-> None]}

\* Every call using the locals of the first one.
FrameOf_Shared(i) == 1

\* http.go:60-62: lastErr and attempt are locals of the activation of
\* request that call i runs in.
FrameOf(i) == i

NewFrame == [attempt |-> 0, lastErr |-> None]
IdleCall == [pc |-> "idle", method |-> "", hist |-> <<>>, sleeps |-> <<>>, ret |-> NilRet]

InitTwo ==
    /\ maxRetries \in 0..TwoRetriesBound
    /\ urlOk = TRUE
    /\ CallIdle
    /\ EfIdle
    /\ BkIdle
    /\ WoIdle
    /\ TsIdle
    /\ calls = [i \in CallIds |-> IdleCall]
    /\ frames = [i \in CallIds |-> NewFrame]
    /\ PollIdle

\* http.go:51-62: call i enters request; its locals are initialised.
TwoRequest(i, m) ==
    /\ calls[i].pc = "idle"
    /\ frames' = [frames EXCEPT ![FrameOf(i)] = NewFrame]
    /\ calls' = [calls EXCEPT ![i] =
                    IF LoopCond(0, maxRetries)
                    THEN [@ EXCEPT !.pc = "send", !.method = m]
                    ELSE [@ EXCEPT !.pc = "done", !.method = m,
                                   !.ret = [result |-> None,
                                            err |-> Some(ExhaustedErr(None))]]]
    /\ UNCHANGED <<callVars, efVars, bkVars, woVars, tsVars, pollVars>>

\* http.go:72-81: call i calls client.Do.
TwoIssue(i) ==
    /\ calls[i].pc = "send"
    /\ calls' = [calls EXCEPT ![i].pc = AfterIssue]
    /\ UNCHANGED <<frames, callVars, efVars, bkVars, woVars, tsVars, pollVars>>

\* http.go:81-95: client.Do of call i fails with msg.
TwoSendFails(i, msg) ==
    /\ calls[i].pc = "wait"
    /\ LET f == frames[FrameOf(i)]
           le == RecordErr(f.lastErr, msg)
           h == Append(calls[i].hist, [kind |-> "fail", msg |-> msg])
       IN  /\ frames' = [frames EXCEPT ![FrameOf(i)].lastErr = le]
           /\ IF FailureOutcome(FALSE, f.attempt, maxRetries) = "retry"
              THEN calls' = [calls EXCEPT ![i] =
                        [@ EXCEPT !.pc = "sleep", !.hist = h,
                                  !.sleeps = Append(@, SleepBackoff(f.attempt))]]
              ELSE calls' = [calls EXCEPT ![i] =
                        [@ EXCEPT !.pc = "done", !.hist = h,
                                  !.ret = [result |-> None,
                                           err |-> Some(ExhaustedErr(le))]]]
    /\ UNCHANGED <<callVars, efVars, bkVars, woVars, tsVars, pollVars>>

\* http.go:97-140: client.Do of call i returns a response.
TwoSendResponds(i, status, respBody) ==
    /\ calls[i].pc = "wait"
    /\ LET a == frames[FrameOf(i)].attempt
           h == Append(calls[i].hist,
                       [kind |-> "resp", status |-> status, body |-> respBody])
       IN  IF RetryOn429(status, a, maxRetries)
           THEN calls' = [calls EXCEPT ![i] =
                    [@ EXCEPT !.pc = "sleep", !.hist = h,
                              !.sleeps = Append(@, SleepOn429(<<>>, a))]]
           ELSE IF RetryOn5xx(status, a, maxRetries)
           THEN calls' = [calls EXCEPT ![i] =
                    [@ EXCEPT !.pc = "sleep", !.hist = h,
                              !.sleeps = Append(@, SleepBackoff(a))]]
           ELSE calls' = [calls EXCEPT ![i] =
                    [@ EXCEPT !.pc = "done", !.hist = h,
                              !.ret = Finalize(status, respBody)]]
    /\ UNCHANGED <<frames, callVars, efVars, bkVars, woVars, tsVars, pollVars>>

\* time.Sleep of call i returns; the loop's post statement and condition run.
TwoWake(i) ==
    /\ calls[i].pc = "sleep"
    /\ LET f == frames[FrameOf(i)]
       IN  /\ frames' = [frames EXCEPT ![FrameOf(i)].attempt = NextAttempt(f.attempt)]
           /\ IF LoopCond(NextAttempt(f.attempt), maxRetries)
              THEN calls' = [calls EXCEPT ![i].pc = "send"]
              ELSE calls' = [calls EXCEPT ![i] =
                        [@ EXCEPT !.pc = "done",
                                  !.ret = [result |-> None,
                                           err |-> Some(ExhaustedErr(f.lastErr))]]]
    /\ UNCHANGED <<callVars, efVars, bkVars, woVars, tsVars, pollVars>>

NextTwo ==
    \/ \E i \in CallIds, m \in {"GET"} : TwoRequest(i, m)
    \/ \E i \in CallIds : TwoIssue(i)
    \/ \E i \in CallIds, msg \in NetFailures : TwoSendFails(i, msg)
    \/ \E i \in CallIds, status \in TwoStatuses, respBody \in TwoBodies :
            TwoSendResponds(i, status, respBody)
    \/ \E i \in CallIds : TwoWake(i)

SpecTwo == InitTwo /\ [][NextTwo]_vars

----------------------------------------------------------------------------
(* http.go: calls followed to their final response, over a wider range of  *)
(* statuses and bodies                                                     *)

FinalRetriesBound == 1   \* largest maxRetries drawn for these calls

\* Statuses of responses, 1xx and 3xx among those below 400.
FinalStatuses == {101, 200, 204, 302, 399, 400, 404, 429, 500}

\* Bodies of responses: those of RespBodies and objects whose "error" key
\* holds a number or an array.
FinalBodies ==
    RespBodies
        \cup {[kind |-> "object", id |-> None, error |-> e] :
                e \in {Some(JNum(7)), Some([t |-> "array"])}}

InitFinal ==
    /\ maxRetries \in 0..FinalRetriesBound
    /\ urlOk = TRUE
    /\ CallIdle
    /\ EfIdle
    /\ BkIdle
    /\ WoIdle
    /\ TsIdle
    /\ TwoIdle
    /\ PollIdle

NextFinal ==
    \/ \E m \in {"GET", "POST"}, p \in Paths, b \in {"nil", "ok"} :
            Request(m, p, b) /\ UNCHANGED <<efVars, bkVars, woVars, tsVars, twoVars, pollVars>>
    \/ Issue /\ UNCHANGED <<efVars, bkVars, woVars, tsVars, twoVars, pollVars>>
    \/ \E msg \in {"connection refused"} :
            SendFails(msg, FALSE) /\ UNCHANGED <<efVars, bkVars, woVars, tsVars, twoVars, pollVars>>
    \/ \E status \in FinalStatuses, respBody \in FinalBodies :
            SendResponds(status, <<>>, respBody)
                /\ UNCHANGED <<efVars, bkVars, woVars, tsVars, twoVars, pollVars>>
    \/ Wake /\ UNCHANGED <<efVars, bkVars, woVars, tsVars, twoVars, pollVars>>

SpecFinal == InitFinal /\ [][NextFinal]_vars

----------------------------------------------------------------------------
(* Properties of errorFromResponse, checked under SpecErrors *)

Classified == IsSome(efOut)

\* The variant the status table of the taxonomy gives to a status.
TableVariant(st) ==
    IF st = 400 THEN "ValidationError"
    ELSE IF st = 401 THEN "AuthenticationError"
    ELSE IF st = 403 THEN "ForbiddenError"
    ELSE IF st = 404 THEN "NotFoundError"
    ELSE IF st = 409 THEN "ConflictError"
    ELSE IF st = 429 THEN "RateLimitError"
    ELSE IF st \in 500..MaxStatus THEN "ServerError"
    ELSE "ProofError"

\* C5: errorFromResponse maps the status to exactly one variant: 400, 401,
\* 403, 404, 409 and 429 to their own variants, every status >= 500 to
\* ServerError, and every other status to the untagged base error, whose code
\* is http_<status> when the body gives none.
C5_StatusMapping ==
    Classified =>
        /\ Get(efOut).variant = TableVariant(efStatus)
        /\ efStatus \in {402, 418} => Get(efOut).variant = "ProofError"
        /\ (Get(efOut).variant = "ProofError"
                /\ (~IsSome(efBody) \/ Get(efBody).Code = "")) =>
                Get(efOut).base.Code = "http_" \o ToString(efStatus)
        /\ (efStatus >= 500) <=> (Get(efOut).variant = "ServerError")
        /\ (efStatus \in {400, 401, 403, 404, 409, 429} \/ efStatus >= 500)
                <=> (Get(efOut).variant # "ProofError")

C5_Witness ==
    /\ Classified
    /\ efStatus = 500
    /\ Get(efOut).variant = "ServerError"

\* C6: the error's code and message equal the body's value when the body is
\* present and that field is non-empty and the default otherwise; details and
\* request id equal the body's values when the body is present and are absent
\* otherwise; StatusCode equals the input status.
C6_FieldResolution ==
    Classified =>
        LET e == Get(efOut).base
            has == IsSome(efBody)
        IN  /\ e.Code = IF has /\ Get(efBody).Code # "" THEN Get(efBody).Code
                        ELSE "http_" \o ToString(efStatus)
            /\ e.Message = IF has /\ Get(efBody).Message # "" THEN Get(efBody).Message
                           ELSE "Request failed with status " \o ToString(efStatus)
            /\ has => e.Details = Get(efBody).Details /\ e.RequestID = Get(efBody).RequestID
            /\ ~has => e.Details = None /\ e.RequestID = ""
            /\ e.StatusCode = efStatus

C6_Witness ==
    /\ Classified
    /\ IsSome(efBody)
    /\ Get(efBody).Code = "invalid_param"
    /\ Get(efBody).Message = ""
    /\ Get(efOut).base.Code = "invalid_param"
    /\ Get(efOut).base.Message = "Request failed with status 400"

\* C7: for status 429 with a body, RetryAfter and RemainingAttempts of the
\* RateLimitError equal the body's retryAfter and remaining_attempts, a
\* present 0 staying present; with no body both are absent; no other variant
\* has these two fields.
C7_LockoutFields ==
    Classified =>
        LET e == Get(efOut)
        IN  /\ (efStatus = 429 /\ IsSome(efBody)) =>
                    /\ e.RetryAfter = Get(efBody).RetryAfter
                    /\ e.RemainingAttempts = Get(efBody).RemainingAttempts
            /\ (efStatus = 429 /\ ~IsSome(efBody)) =>
                    /\ e.RetryAfter = None
                    /\ e.RemainingAttempts = None
            /\ (efStatus # 429) =>
                    {"RetryAfter", "RemainingAttempts"} \cap DOMAIN e = {}

C7_Witness ==
    /\ Classified
    /\ efStatus = 429
    /\ IsSome(efBody)
    /\ Get(efBody).RetryAfter = Some(3600)
    /\ Get(efBody).RemainingAttempts = Some(0)
    /\ Get(efOut).RetryAfter = Some(3600)
    /\ Get(efOut).RemainingAttempts = Some(0)

----------------------------------------------------------------------------
(* Properties of backoff, checked under SpecBackoff *)

\* The milliseconds the backoff schedule lists for an attempt.
TableBackoff(a) ==
    IF a = 0 THEN 1000
    ELSE IF a = 1 THEN 2000
    ELSE IF a = 2 THEN 4000
    ELSE IF a = 3 THEN 8000
    ELSE 10000

\* C8: backoff(attempt) is 1000, 2000, 4000, 8000 ms for attempts 0..3 and
\* 10000 ms for every attempt >= 4; it is non-decreasing in the attempt and
\* the same for equal attempts, whatever the transport's configuration.
C8_BackoffSchedule ==
    IsSome(bkOut) =>
        /\ Get(bkOut)[1] = TableBackoff(bkA)
        /\ Get(bkOut)[2] = TableBackoff(bkB)
        /\ bkA <= bkB => Get(bkOut)[1] <= Get(bkOut)[2]
        /\ bkA = bkB => Get(bkOut)[1] = Get(bkOut)[2]
        /\ bkA >= 4 => Get(bkOut)[1] = 10000

C8_Witness ==
    /\ IsSome(bkOut)
    /\ bkA = 3 /\ bkB = 10
    /\ Get(bkOut) = <<8000, 10000>>

----------------------------------------------------------------------------
(* Properties of the retry loop, checked under Spec *)

Returned == pc = "done"
IsResp(i) == hist[i].kind = "resp"
ErrVariant == IF IsSome(ret.err) THEN Get(ret.err).variant ELSE "nil"

\* C1: with maxRetries = N >= 0 a call issues at most N+1 attempts, numbered
\* 0..N, whatever the outcomes of the attempts.
C1_AttemptBudget ==
    maxRetries >= 0 =>
        /\ Len(hist) <= maxRetries + 1
        /\ started <= maxRetries + 1
        /\ served <= maxRetries + 1
        /\ attempt \in 0..maxRetries

C1_Witness ==
    /\ Returned
    /\ maxRetries = 2
    /\ Len(hist) = 3
    /\ hist[1].kind = "fail"
    /\ IsResp(2) /\ hist[2].status = 429
    /\ IsResp(3) /\ hist[3].status = 503

\* C2: when the first k attempts each receive a status >= 500 and the next
\* one a 2xx, the call returns that response's parsed body with no error and
\* the server has seen exactly k+1 requests.
C2_RetryThenSuccess ==
    LET n == Len(hist)
    IN  (/\ Returned
         /\ n >= 1
         /\ \A i \in 1..(n - 1) : IsResp(i) /\ hist[i].status >= 500
         /\ IsResp(n) /\ hist[n].status \in 200..299) =>
            /\ ret.err = None
            /\ IsSome(finalBody)
            /\ Get(finalBody).kind = "object" => ret.result = finalBody
            /\ Get(finalBody).kind # "object" => ret.result \in {None, Some(EmptyMap)}
            /\ served = n
            /\ n <= maxRetries + 1

C2_Witness ==
    /\ Returned
    /\ maxRetries = 1
    /\ Len(hist) = 2
    /\ IsResp(1) /\ hist[1].status = 500
    /\ IsResp(2) /\ hist[2].status = 200
    /\ served = 2
    /\ ret.err = None
    /\ IsSome(ret.result) /\ Get(ret.result).id = Some(JStr("ver_123"))

\* C3: when every attempt of a call receives a status >= 500, the call fails
\* with a ServerError and the server has seen exactly maxRetries+1 requests.
C3_RetryExhausted ==
    (/\ Returned
     /\ Len(hist) >= 1
     /\ \A i \in 1..Len(hist) : IsResp(i) /\ hist[i].status >= 500) =>
        /\ ErrVariant = "ServerError"
        /\ ret.result = None
        /\ Get(ret.err).base.StatusCode = hist[Len(hist)].status
        /\ served = maxRetries + 1
        /\ Len(hist) = maxRetries + 1

C3_Witness ==
    /\ Returned
    /\ maxRetries = 1
    /\ Len(hist) = 2
    /\ IsResp(1) /\ hist[1].status = 503
    /\ IsResp(2) /\ hist[2].status = 503
    /\ ErrVariant = "ServerError"
    /\ served = 2

\* C4: a response with a status in 400..499 other than 429 is never retried:
\* it is the last attempt of the call, which returns the error classified
\* from that status with no sleep after it, however many retries remain.
C4_ClientErrorNotRetried ==
    \A i \in 1..Len(hist) :
        (IsResp(i) /\ hist[i].status \in 400..499 /\ hist[i].status # 429) =>
            /\ i = Len(hist)
            /\ Returned
            /\ attempt = i - 1
            /\ Len(sleeps) = i - 1
            /\ ret.result = None
            /\ ErrVariant = (IF hist[i].status = 400 THEN "ValidationError"
                             ELSE "ProofError")
            /\ Get(ret.err).base.StatusCode = hist[i].status

C4_Witness ==
    /\ Returned
    /\ maxRetries = 2
    /\ Len(hist) = 1
    /\ IsResp(1) /\ hist[1].status = 400
    /\ ErrVariant = "ValidationError"
    /\ sleeps = <<>>

\* The seconds, in milliseconds, of the Retry-After values that are numbers.
HeaderMs(ra) ==
    IF ra = <<"2">> THEN Some(2000)
    ELSE IF ra = <<"0", ".", "5">> THEN Some(500)
    ELSE None

\* C9: when attempt k receives a 429 and k < maxRetries, the call sleeps once
\* before attempt k+1: for the seconds of the Retry-After header when the
\* header is present and is a number, and for backoff(k) otherwise.
C9_RetryAfterPrecedence ==
    \A i \in 1..Len(hist) :
        (IsResp(i) /\ hist[i].status = 429 /\ i - 1 < maxRetries) =>
            /\ Len(sleeps) >= i
            /\ Cardinality({j \in 1..Len(sleeps) : sleeps[j].after = i - 1}) = 1
            /\ sleeps[i].after = i - 1
            /\ IF IsSome(HeaderMs(hist[i].ra))
               THEN sleeps[i].kind = "retryAfter" /\ sleeps[i].ms = Get(HeaderMs(hist[i].ra))
               ELSE sleeps[i].kind = "backoff" /\ sleeps[i].ms = TableBackoff(i - 1)
            /\ i = Len(hist) => pc \in {"sleep", "send", "wait"}
            /\ i < Len(hist) => Len(sleeps) >= i

C9_Witness ==
    /\ maxRetries = 2
    /\ Len(hist) = 2
    /\ IsResp(1) /\ hist[1].status = 429 /\ hist[1].ra = <<"0", ".", "5">>
    /\ sleeps[1] = [after |-> 0, kind |-> "retryAfter", ms |-> 500]

\* C10: a send that fails while the context is done makes the call return a
\* TimeoutError with code "timeout" and a message naming the method and the
\* path, on that attempt: no later attempt and no sleep, even with retries
\* left.
C10_ContextDoneNoRetry ==
    \A i \in 1..Len(hist) :
        (hist[i].kind = "fail" /\ hist[i].ctx) =>
            /\ i = Len(hist)
            /\ Returned
            /\ attempt = i - 1
            /\ Len(sleeps) = i - 1
            /\ ret.result = None
            /\ ErrVariant = "TimeoutError"
            /\ Get(ret.err).base.Code = "timeout"
            /\ Get(ret.err).base.Message
                    = "Request to " \o method \o " " \o path \o " timed out"

C10_Witness ==
    /\ Returned
    /\ maxRetries = 2
    /\ attempt = 0
    /\ Len(hist) = 1
    /\ hist[1].kind = "fail" /\ hist[1].ctx
    /\ ErrVariant = "TimeoutError"
    /\ Get(ret.err).base.Message = "Request to POST /test timed out"

\* C11: when every attempt 0..maxRetries fails at transport level with the
\* context live, the call returns a NetworkError with code "network_error"
\* whose message is that of the last failure, after exactly maxRetries+1
\* attempts.
C11_NetworkErrorLastFailure ==
    (/\ Returned
     /\ Len(hist) >= 1
     /\ \A i \in 1..Len(hist) : hist[i].kind = "fail" /\ ~hist[i].ctx) =>
        /\ ErrVariant = "NetworkError"
        /\ ret.result = None
        /\ Get(ret.err).base.Code = "network_error"
        /\ Get(ret.err).base.Message = hist[Len(hist)].msg
        /\ Len(hist) = maxRetries + 1
        /\ started = maxRetries + 1

C11_Witness ==
    /\ Returned
    /\ maxRetries = 1
    /\ Len(hist) = 2
    /\ hist[1] = [kind |-> "fail", ctx |-> FALSE, msg |-> "connection refused"]
    /\ hist[2] = [kind |-> "fail", ctx |-> FALSE, msg |-> "Client.Timeout exceeded"]
    /\ ErrVariant = "NetworkError"
    /\ Get(ret.err).base.Message = "Client.Timeout exceeded"

\* The variants of the error taxonomy.
Taxonomy ==
    {"ValidationError", "AuthenticationError", "ForbiddenError", "NotFoundError",
     "ConflictError", "RateLimitError", "ServerError", "NetworkError",
     "TimeoutError", "PollingTimeoutError", "ProofError"}

\* C12 as stated: a body that cannot be serialized makes the call return a
\* generic error outside the taxonomy, with no request sent and no sleep.
C12_Original ==
    (Returned /\ body = "unmarshalable") =>
        /\ ErrVariant \notin Taxonomy \cup {"nil"}
        /\ started = 0
        /\ sleeps = <<>>

\* C12, amended: when the URL parses and maxRetries >= 0, a body that cannot
\* be serialized makes the call return at attempt 0 with a generic error
\* outside the taxonomy: no request is sent, no sleep happens, no retry is
\* made.
C12_MarshalFailureFatal ==
    (urlOk /\ maxRetries >= 0 /\ body = "unmarshalable") =>
        /\ pc \in {"send", "done"}
        /\ attempt = 0
        /\ started = 0
        /\ hist = <<>>
        /\ sleeps = <<>>
        /\ Returned =>
                /\ ret.result = None
                /\ ErrVariant \notin Taxonomy \cup {"nil"}
                /\ Get(ret.err).text = "failed to marshal request body"

C12_Witness ==
    /\ Returned
    /\ urlOk
    /\ maxRetries = 2
    /\ method = "POST"
    /\ body = "unmarshalable"
    /\ ErrVariant = "errorString"
    /\ started = 0

\* C13: a finalized response whose body is empty or is not a JSON object
\* yields, for a status < 400, success with an empty result object, and for a
\* status >= 400 the classified error built from the defaults.
C13_UnparsableBody ==
    (/\ Returned
     /\ IsSome(finalBody)
     /\ Get(finalBody).kind # "object") =>
        LET st == hist[Len(hist)].status
        IN  /\ st < 400 => ret.err = None /\ ret.result = Some(EmptyMap)
            /\ st >= 400 =>
                    /\ ret.result = None
                    /\ IsSome(ret.err)
                    /\ Get(ret.err).base =
                            [Message |-> "Request failed with status " \o ToString(st),
                             Code |-> "http_" \o ToString(st),
                             StatusCode |-> st,
                             Details |-> None,
                             RequestID |-> ""]

\* C20: the attempts of one call are sequential: at most one attempt is in
\* flight, and a new attempt is started only when the outcome of every
\* earlier one is known.
C20_SequentialAttempts ==
    /\ inFlight \in {0, 1}
    /\ started = Len(hist) + inFlight
    /\ inFlight = 1 <=> pc = "wait"
    /\ pc = "wait" => attempt = Len(hist)

C20_Witness ==
    /\ pc = "wait"
    /\ inFlight = 1
    /\ started = 3
    /\ Len(hist) = 2

----------------------------------------------------------------------------
(* Properties of resolveWaitOptions, checked under SpecWait *)

Resolved == IsSome(woOut)

\* C19: resolveWaitOptions returns 3 s and 10 min when no options are given;
\* each field is resolved on its own: an override > 0 is returned exactly,
\* an override <= 0 gives that field's default, and the value of one field
\* has no effect on the other.
C19_WaitOptionDefaults ==
    Resolved =>
        LET r == Get(woOut)
        IN  /\ ~IsSome(woOpts) => r.interval = 3000 /\ r.timeout = 600000
            /\ IsSome(woOpts) =>
                /\ Get(woOpts).Interval > 0 => r.interval = Get(woOpts).Interval
                /\ Get(woOpts).Interval <= 0 => r.interval = 3000
                /\ Get(woOpts).Timeout > 0 => r.timeout = Get(woOpts).Timeout
                /\ Get(woOpts).Timeout <= 0 => r.timeout = 600000
                /\ \A o \in WaitOptionValues :
                    (IsSome(o) /\ Get(o).Interval = Get(woOpts).Interval) =>
                        resolveWaitOptions(o).interval = r.interval
                /\ \A o \in WaitOptionValues :
                    (IsSome(o) /\ Get(o).Timeout = Get(woOpts).Timeout) =>
                        resolveWaitOptions(o).timeout = r.timeout

C19_Witness ==
    /\ Resolved
    /\ woOpts = Some([Interval |-> 0, Timeout |-> 5])
    /\ Get(woOut) = [interval |-> 3000, timeout |-> 5]

----------------------------------------------------------------------------
(* Properties of pollUntilComplete, checked under SpecPoll *)

PollReturned == ppc = "done"
PollErrVariant == IF IsSome(pret.err) THEN Get(pret.err).variant ELSE "nil"
Elapsed == now - pStart
RetrieveOk(i) == ~IsSome(pollHist[i].err)
TerminalAt(i) == isTerminal(pKind, StatusOf(pollHist[i].result))

\* C14: every suspension point can be interrupted by the caller's
\* cancellation: once the context is done, a request in flight ends the call,
\* a sleep between transport attempts ends the call without running to its
\* end, and the wait between two polls ends the poll without running to its
\* end.
C14_SuspensionsInterruptible ==
    [][/\ (ctxDone /\ pc = "wait") => pc' = "done"
       /\ (ctxDone /\ pc = "sleep") => (pc' = "done" /\ now' = now)
       /\ (ctxDone /\ ppc = "wait") => (ppc' = "done" /\ now' = now)]_vars

\* C15: when every retrieve succeeded and the first result with a terminal
\* status is the k-th, the poll has made k retrievals and k-1 interval waits
\* and has returned the k-th result with no error; for k = 1 it has not
\* waited at all.
C15_PollsUntilTerminal ==
    LET k == Len(pollHist)
    IN  (/\ k >= 1
         /\ \A i \in 1..k : RetrieveOk(i)
         /\ TerminalAt(k)
         /\ \A i \in 1..(k - 1) : ~TerminalAt(i)) =>
            /\ PollReturned
            /\ retrievals = k
            /\ waits = k - 1
            /\ pret = [result |-> pollHist[k].result, err |-> None]
            /\ Elapsed >= (k - 1) * pInterval
            /\ k = 1 => waits = 0

C15_Witness ==
    /\ PollReturned
    /\ pKind = "verification"
    /\ pInterval = 10
    /\ Len(pollHist) = 3
    /\ StatusOf(pollHist[1].result) = "pending"
    /\ StatusOf(pollHist[2].result) = "pending"
    /\ StatusOf(pollHist[3].result) = "verified"
    /\ retrievals = 3 /\ waits = 2
    /\ Elapsed = 20
    /\ StatusOf(pret.result) = "verified"
    /\ pret.err = None

\* The text of the timeouts a poll can run into.
TimeoutText == IF pTimeout = 30 THEN "30ms" ELSE IF pTimeout = 1500 THEN "1.5s" ELSE "10m0s"

\* C16: a poll whose retrievals all succeed with non-terminal statuses, its
\* context live, goes on only while the timeout has not elapsed and ends with
\* a PollingTimeoutError, code "polling_timeout", when a retrieval returns
\* with the timeout elapsed; the message holds the label, the timeout and the
\* status of the last retrieval.
C16_PollingTimeout ==
    LET k == Len(pollHist)
        msg == PollLabel(pKind) \o " did not complete within " \o TimeoutText
                    \o " (last status: " \o StatusOf(pollHist[k].result) \o ")"
    IN  /\ ppc = "wait" => Elapsed < pTimeout /\ waits * pInterval < pTimeout
        /\ (/\ PollReturned /\ ~ctxDone /\ k >= 1
            /\ \A i \in 1..k : RetrieveOk(i) /\ ~TerminalAt(i)) =>
                /\ Elapsed >= pTimeout
                /\ PollErrVariant = "PollingTimeoutError"
                /\ pret.result = None
                /\ Get(pret.err).base.Code = "polling_timeout"
                /\ Get(pret.err).base.Message = msg
        /\ PollErrVariant = "PollingTimeoutError" =>
                /\ Elapsed >= pTimeout
                /\ k >= 1 /\ RetrieveOk(k) /\ ~TerminalAt(k)
                /\ Get(pret.err).base.Message = msg

C16_Witness ==
    /\ PollReturned
    /\ ~ctxDone
    /\ pKind = "request"
    /\ pInterval = 10 /\ pTimeout = 30
    /\ retrievals = 4 /\ waits = 3
    /\ Elapsed = 30
    /\ StatusOf(pollHist[4].result) = "verified"
    /\ PollErrVariant = "PollingTimeoutError"
    /\ Get(pret.err).base.Message =
            "Verification request ver_1 did not complete within 30ms (last status: verified)"

\* C17: a poll begun with a context that is already done makes at most one
\* retrieval, never sleeps or waits, lets no time pass, and returns an error
\* and no result.
C17_CancelledBeforePoll ==
    ctxAtStart =>
        /\ retrievals <= 1
        /\ waits = 0
        /\ sleeps = <<>>
        /\ ppc # "wait"
        /\ Elapsed = 0
        /\ Len(pollHist) = 1 => ~RetrieveOk(1)
        /\ PollReturned => pret.result = None /\ IsSome(pret.err)

C17_Witness ==
    /\ ctxAtStart
    /\ PollReturned
    /\ retrievals = 1
    /\ started = 1
    /\ hist[1].kind = "fail" /\ hist[1].ctx
    /\ PollErrVariant = "TimeoutError"
    /\ Elapsed = 0

\* C18: a retrieval that fails ends the poll: its error is returned as it
\* is, with no result, and it is the last retrieval, whatever time has
\* elapsed.
C18_RetrieveErrorFatal ==
    \A i \in 1..Len(pollHist) :
        ~RetrieveOk(i) =>
            /\ i = Len(pollHist)
            /\ retrievals = i
            /\ PollReturned
            /\ pret = [result |-> None, err |-> pollHist[i].err]

C18_Witness ==
    /\ PollReturned
    /\ pTimeout = 600000
    /\ Elapsed = 3000
    /\ Len(pollHist) = 2
    /\ RetrieveOk(1)
    /\ ~RetrieveOk(2)
    /\ Get(pollHist[2].err).variant = "NotFoundError"
    /\ PollErrVariant = "NotFoundError"
    /\ retrievals = 2

----------------------------------------------------------------------------
(* Properties of every return, checked under SpecPoll *)

\* C21: no return of a transport call or of pollUntilComplete carries a
\* result together with an error: when the error is non-nil the result is
\* nil.
C21_ResultOrError ==
    /\ IsSome(ret.err) => ret.result = None
    /\ IsSome(pret.err) => pret.result = None

C21_Witness ==
    /\ PollReturned
    /\ PollErrVariant = "PollingTimeoutError"
    /\ pret.result = None
    /\ Returned
    /\ ret.err = None
    /\ StatusOf(ret.result) = "pending"

\* An error of the taxonomy with a message and a code.
ClassifiedErr(e) ==
    /\ e.variant \in Taxonomy
    /\ e.base.Message # ""
    /\ e.base.Code # ""

\* C22 as stated: every failure returned by a transport call or by
\* pollUntilComplete is a classified error of the taxonomy with a non-empty
\* message and a non-empty code.
C22_Original ==
    /\ IsSome(ret.err) => ClassifiedErr(Get(ret.err))
    /\ IsSome(pret.err) => ClassifiedErr(Get(pret.err))

\* C22: every failure is one error value; it is a classified error of the
\* taxonomy with a non-empty message and code, except the marshal error of a
\* request body that cannot be serialized and the context's own error
\* returned by a poll whose interval wait was ended by the context.
C22_ClassifiedFailures ==
    /\ IsSome(ret.err) =>
            \/ ClassifiedErr(Get(ret.err))
            \/ /\ Get(ret.err) = MarshalErr
               /\ body = "unmarshalable"
               /\ started = 0
    /\ IsSome(pret.err) =>
            \/ ClassifiedErr(Get(pret.err))
            \/ /\ Get(pret.err) = CtxErr
               /\ ctxDone
               /\ Len(pollHist) >= 1
               /\ \A i \in 1..Len(pollHist) : RetrieveOk(i)

C22_Witness ==
    /\ PollReturned
    /\ PollErrVariant = "ServerError"
    /\ Get(pret.err).base.Code = "http_503"
    /\ Get(pret.err).base.Message = "Request failed with status 503"
    /\ Get(pret.err).base.StatusCode = 503

\* C23: a poll suspended between two iterations leaves the wait in one of
\* two ways: with the context live the interval runs out and the loop goes
\* round; with the context done it returns the context's error and a nil
\* result, no more time passing; a poll that has returned makes no further
\* retrieval.
C23_WaitResumes ==
    [][/\ ppc = "wait" =>
            \/ ppc' = "wait"
            \/ /\ ~ctxDone
               /\ ppc' = "call"
               /\ now' = now + pInterval
               /\ waits' = waits + 1
               /\ pret' = pret
            \/ /\ ctxDone
               /\ ppc' = "done"
               /\ pret' = [result |-> None, err |-> Some(CtxErr)]
               /\ now' = now
               /\ waits' = waits
               /\ retrievals' = retrievals
       /\ ppc = "done" =>
            /\ ppc' = "done"
            /\ retrievals' = retrievals
            /\ started' = started
            /\ pret' = pret]_vars

C23_Witness ==
    /\ PollReturned
    /\ ctxDone
    /\ pret = [result |-> None, err |-> Some(CtxErr)]
    /\ pInterval = 10
    /\ waits = 1
    /\ retrievals = 2
    /\ Elapsed = 10

----------------------------------------------------------------------------
(* Properties of the terminal predicates, checked under SpecTerminal *)

\* C24: the verification predicate accepts exactly verified, failed, expired
\* and revoked; the session predicate exactly verified, failed and expired;
\* the request predicate exactly completed, expired and cancelled; every
\* other string, "pending" and "" among them, is non-terminal for all three.
C24_TerminalStatuses ==
    LET v == Get(tsOut)
    IN  /\ IsSome(v.verification) =>
            (Get(v.verification) <=>
                tsStatus \in {"verified", "failed", "expired", "revoked"})
        /\ IsSome(v.session) =>
            (Get(v.session) <=> tsStatus \in {"verified", "failed", "expired"})
        /\ IsSome(v.request) =>
            (Get(v.request) <=> tsStatus \in {"completed", "expired", "cancelled"})
        /\ tsStatus \in {"pending", ""} =>
            /\ v.verification \in {None, Some(FALSE)}
            /\ v.session \in {None, Some(FALSE)}
            /\ v.request \in {None, Some(FALSE)}

C24_Witness ==
    /\ tsStatus = "revoked"
    /\ Get(tsOut) = [verification |-> Some(TRUE), session |-> Some(FALSE),
                     request |-> Some(FALSE)]

----------------------------------------------------------------------------
(* Properties of concurrent calls, checked under SpecTwo *)

\* An attempt of this outcome is retried while attempts remain.
TwoRetryable(h) == h.kind = "fail" \/ h.status = 429 \/ h.status >= 500

\* What a call returns, given the outcomes of its own attempts only.
TwoExpected(hist_) ==
    LET last == hist_[Len(hist_)]
    IN  IF last.kind = "resp" THEN Finalize(last.status, last.body)
        ELSE [result |-> None, err |-> Some(ExhaustedErr(Some(last.msg)))]

\* C25: calls running at once on one transport do not interfere: each makes
\* at most maxRetries+1 attempts and exactly that many when all its attempts
\* are retryable, sleeps once between its own consecutive attempts with its
\* own attempt index, and returns what the outcomes of its own attempts
\* determine; no step changes the transport's configuration.
C25_CallsIndependent ==
    /\ [](\A i \in DOMAIN calls :
            LET c == calls[i]
                n == Len(c.hist)
            IN  /\ n <= maxRetries + 1
                /\ \A k \in 1..Len(c.sleeps) : c.sleeps[k].after = k - 1
                /\ c.pc = "done" =>
                    /\ n >= 1
                    /\ Len(c.sleeps) = n - 1
                    /\ (\A k \in 1..n : TwoRetryable(c.hist[k])) => n = maxRetries + 1
                    /\ \A k \in 1..(n - 1) : TwoRetryable(c.hist[k])
                    /\ c.ret = TwoExpected(c.hist))
    /\ [][maxRetries' = maxRetries /\ urlOk' = urlOk]_vars

C25_Witness ==
    /\ maxRetries = 1
    /\ calls[1].pc = "done"
    /\ calls[2].pc = "done"
    /\ Len(calls[1].hist) = 2
    /\ calls[1].hist[1].kind = "fail" /\ calls[1].hist[1].msg = "connection refused"
    /\ calls[1].hist[2].kind = "fail" /\ calls[1].hist[2].msg = "connection refused"
    /\ Get(calls[1].ret.err).base.Message = "connection refused"
    /\ Len(calls[2].hist) = 2
    /\ calls[2].hist[1].kind = "fail" /\ calls[2].hist[1].msg = "Client.Timeout exceeded"
    /\ calls[2].hist[2].kind = "resp" /\ calls[2].hist[2].status = 200
    /\ calls[2].ret.err = None
    /\ IsSome(calls[2].ret.result)

----------------------------------------------------------------------------
(* Further properties of the retry loop, checked under Spec *)

\* Attempt k ended in a status >= 500 or in a send failure with the context
\* live, and attempts remain.
BackoffRetry(k) ==
    /\ k < maxRetries
    /\ \/ hist[k + 1].kind = "resp" /\ hist[k + 1].status >= 500
       \/ hist[k + 1].kind = "fail" /\ ~hist[k + 1].ctx

\* C26: when attempt k < maxRetries ends in a status >= 500 or in a send
\* failure with the context live, the call sleeps backoff(k), 1000 ms for
\* k = 0, whatever Retry-After header the response has, and goes on to
\* attempt k+1: it does not return on attempt k.
C26_BackoffBetweenAttempts ==
    \A k \in 0..(Len(hist) - 1) :
        BackoffRetry(k) =>
            /\ Len(sleeps) >= k + 1
            /\ sleeps[k + 1] = [after |-> k, kind |-> "backoff", ms |-> TableBackoff(k)]
            /\ \/ pc = "sleep" /\ attempt = k /\ Len(hist) = k + 1
               \/ pc \in {"send", "wait"} /\ attempt = k + 1 /\ Len(hist) = k + 1
               \/ Len(hist) >= k + 2

C26_Witness ==
    /\ Returned
    /\ maxRetries = 2
    /\ Len(hist) = 3
    /\ IsResp(1) /\ hist[1].status = 503 /\ hist[1].ra = <<"2">>
    /\ hist[2].kind = "fail" /\ ~hist[2].ctx
    /\ sleeps[1].ms = 1000
    /\ sleeps[2].ms = 2000
    /\ started = 3

----------------------------------------------------------------------------
(* Properties of the final response, checked under SpecFinal *)

EndedOnResponse == Returned /\ IsSome(finalBody)
FinalStatus == hist[Len(hist)].status

\* The map json.Unmarshal leaves for a body: the object itself, a nil map
\* for null, an empty map for anything else.
ParsedBody(b) ==
    IF b.kind = "object" THEN Some(b)
    ELSE IF b.kind = "null" THEN None
    ELSE Some(EmptyMap)

\* C27: a call that ends on a received response returns an error exactly
\* when the status of that response is >= 400; with a status below 400, 1xx
\* and 3xx included, it returns the parsed body and no error.
C27_ErrorIffStatus400 ==
    EndedOnResponse =>
        /\ IsSome(ret.err) <=> FinalStatus >= 400
        /\ FinalStatus < 400 =>
                ret = [result |-> ParsedBody(Get(finalBody)), err |-> None]
        /\ FinalStatus >= 400 =>
                /\ ret.result = None
                /\ Get(ret.err).base.StatusCode = FinalStatus

C27_Witness ==
    /\ EndedOnResponse
    /\ FinalStatus = 302
    /\ ret.err = None
    /\ IsSome(ret.result)
    /\ Get(ret.result).id = Some(JStr("ver_123"))

\* C28: when the final response has a status >= 400 and a body whose
\* "error" key holds something that is not an object (a string, a number, an
\* array or null), the returned error is the one of an absent error body:
\* code http_<status>, message "Request failed with status <status>", no
\* details, no request id, no lockout fields, and the variant of the status.
C28_MalformedErrorField ==
    (/\ EndedOnResponse
     /\ FinalStatus >= 400
     /\ Get(finalBody).kind = "object"
     /\ IsSome(Get(finalBody).error)
     /\ Get(Get(finalBody).error).t # "object") =>
        LET e == Get(ret.err)
        IN  /\ e.variant = TableVariant(FinalStatus)
            /\ e.base = [Message |-> "Request failed with status " \o ToString(FinalStatus),
                         Code |-> "http_" \o ToString(FinalStatus),
                         StatusCode |-> FinalStatus,
                         Details |-> None, RequestID |-> ""]
            /\ FinalStatus = 429 => e.RetryAfter = None /\ e.RemainingAttempts = None

C28_Witness ==
    /\ EndedOnResponse
    /\ FinalStatus = 404
    /\ Get(finalBody).kind = "object"
    /\ Get(finalBody).error = Some(JStr("boom"))
    /\ ErrVariant = "NotFoundError"
    /\ Get(ret.err).base.Code = "http_404"
    /\ Get(ret.err).base.Message = "Request failed with status 404"

----------------------------------------------------------------------------
(* The returned RateLimitError, checked under Spec *)

\* The lockout fields the error object of a body gives: nothing unless the
\* body is an object whose "error" key holds an object.
BodyLockout(b) ==
    IF b.kind = "object" /\ IsSome(b.error) /\ Get(b.error).t = "object"
    THEN [RetryAfter |-> IntPtrField(Get(b.error).v.retryAfter),
          RemainingAttempts |-> IntPtrField(Get(b.error).v.remaining_attempts)]
    ELSE [RetryAfter |-> None, RemainingAttempts |-> None]

\* C29: a call that ends on a 429 response, its retries used up or
\* maxRetries being 0, returns a RateLimitError whose RetryAfter and
\* RemainingAttempts are those of the error object in that response's body;
\* the Retry-After header, of this or of an earlier response, only sets the
\* sleeps and is not in the error.
C29_RateLimitErrorFromBody ==
    (/\ Returned /\ IsSome(finalBody)
     /\ hist[Len(hist)].status = 429) =>
        LET e == Get(ret.err)
        IN  /\ e.variant = "RateLimitError"
            /\ Len(hist) = maxRetries + 1
            /\ e.RetryAfter = BodyLockout(Get(finalBody)).RetryAfter
            /\ e.RemainingAttempts = BodyLockout(Get(finalBody)).RemainingAttempts
            /\ e.RetryAfter \in {None, Some(0), Some(3600)}
            /\ \A i \in 1..Len(sleeps) :
                (hist[i].kind = "resp" /\ hist[i].status = 429
                        /\ hist[i].ra \in {<<"2">>, <<"0", ".", "5">>}) =>
                    sleeps[i].kind = "retryAfter"

C29_Witness ==
    /\ Returned
    /\ maxRetries = 1
    /\ Len(hist) = 2
    /\ IsResp(1) /\ hist[1].status = 429 /\ hist[1].ra = <<"2">>
    /\ IsResp(2) /\ hist[2].status = 429 /\ hist[2].ra = <<"2">>
    /\ sleeps = <<[after |-> 0, kind |-> "retryAfter", ms |-> 2000]>>
    /\ ErrVariant = "RateLimitError"
    /\ Get(ret.err).RetryAfter = Some(3600)
    /\ Get(ret.err).RemainingAttempts = Some(0)

----------------------------------------------------------------------------
(* Termination of a poll session, checked under SpecPollLive *)

\* What a returned session holds: the terminal resource of the last
\* retrieval, the error of the last retrieval, the timeout error, or the
\* error of the context.
PollReturnKind ==
    IF ~IsSome(pret.err)
    THEN IF /\ pollHist # <<>>
            /\ RetrieveOk(Len(pollHist))
            /\ TerminalAt(Len(pollHist))
            /\ pret.result = pollHist[Len(pollHist)].result
         THEN "terminal" ELSE "other"
    ELSE IF ~IsSome(pret.result)
    THEN IF pollHist # <<>> /\ pret.err = pollHist[Len(pollHist)].err
         THEN "retrievalError"
         ELSE IF PollErrVariant = "PollingTimeoutError" THEN "timeout"
         ELSE IF pret.err = Some(CtxErr) THEN "context"
         ELSE "other"
    ELSE "other"

\* C30: a poll session whose retrievals return and whose clock advances
\* eventually returns, and what it returns is a terminal result, a retrieval
\* error, a PollingTimeoutError or the error of the context; it does not go
\* round forever.
C30_PollReturns ==
    /\ [](PollReturned =>
            PollReturnKind \in {"terminal", "retrievalError", "timeout", "context"})
    /\ (ppc # "idle") ~> PollReturned

C30_Witness ==
    /\ PollReturned
    /\ ~ctxDone
    /\ pInterval = 10 /\ pTimeout = 30
    /\ retrievals = 4 /\ waits = 3
    /\ \A i \in 1..4 : RetrieveOk(i) /\ ~TerminalAt(i)
    /\ PollReturnKind = "timeout"

----------------------------------------------------------------------------
(* What a poll returns as success, checked under SpecPollLive *)

\* The value under the "status" key of a retrieved map is a JSON string.
HasStringStatus(result) ==
    /\ IsSome(result)
    /\ "status" \in DOMAIN Get(result)
    /\ IsSome(Get(result).status)
    /\ Get(Get(result).status).t = "string"

\* C31: a poll returns success only with the result of its most recent
\* retrieval and only when the terminal predicate holds for the status of
\* that result; a status that is absent or is not a string is read as the
\* empty string, which no built-in predicate accepts, so such a result is
\* never returned as success.
C31_SuccessIsLastTerminal ==
    /\ \A kind \in Pollers : ~isTerminal(kind, "")
    /\ \A i \in 1..Len(pollHist) :
            (RetrieveOk(i) /\ ~HasStringStatus(pollHist[i].result)) =>
                /\ StatusOf(pollHist[i].result) = ""
                /\ ~TerminalAt(i)
                /\ ~(PollReturned /\ ~IsSome(pret.err))
                        \/ pret.result # pollHist[i].result
    /\ (PollReturned /\ ~IsSome(pret.err)) =>
            LET k == Len(pollHist)
            IN  /\ k >= 1 /\ retrievals = k
                /\ RetrieveOk(k)
                /\ pret.result = pollHist[k].result
                /\ pret.result = ret.result
                /\ HasStringStatus(pret.result)
                /\ TerminalAt(k)
                /\ \A i \in 1..(k - 1) : RetrieveOk(i) /\ ~TerminalAt(i)

C31_Witness ==
    /\ PollReturned
    /\ pKind = "session"
    /\ Len(pollHist) = 4
    /\ pollHist[1].result = None
    /\ IsSome(pollHist[2].result) /\ "status" \notin DOMAIN Get(pollHist[2].result)
    /\ IsSome(pollHist[3].result) /\ "status" \in DOMAIN Get(pollHist[3].result)
    /\ Get(pollHist[3].result).status = Some(JNum(1))
    /\ StatusOf(pollHist[4].result) = "verified"
    /\ pret = [result |-> pollHist[4].result, err |-> None]

----------------------------------------------------------------------------
(* The number of retrievals of a poll, checked under SpecPollLive *)

\* C32 as stated: the retrievals of a session number at most
\* timeout / interval.
C32_Original ==
    retrievals * pInterval <= pTimeout

\* C32: the loop has no cap of its own: after a retrieval that succeeded
\* with a status that is not terminal it goes on to the wait whenever the
\* elapsed time is below the timeout, however many retrievals were made, and
\* it stops for no other reason than an error, a terminal status, the
\* timeout or the context.  A retrieval follows every wait and a wait starts
\* only below the timeout, so a session makes at most
\* ceil(timeout / interval) + 1 retrievals.
C32_IterationBound ==
    /\ [](/\ retrievals >= 2 => (retrievals - 2) * pInterval < pTimeout
          /\ ppc \in {"retrieve", "wait", "done"} => retrievals = waits + 1
          /\ ppc = "call" => retrievals = waits /\ retrievals < MaxPolls)
    /\ [][(/\ ppc = "retrieve" /\ ppc' # "retrieve"
           /\ ~IsSome(ret.err)
           /\ ~isTerminal(pKind, StatusOf(ret.result))
           /\ now - pStart < pTimeout) => ppc' = "wait"]_vars
    /\ [][(ppc = "wait" /\ ppc' # "wait") =>
            \/ ppc' = "call" /\ ~ctxDone
            \/ ppc' = "done" /\ ctxDone]_vars

C32_Witness ==
    /\ PollReturned
    /\ pInterval = 10 /\ pTimeout = 30
    /\ retrievals = 4 /\ waits = 3
    /\ now - pStart = 30
    /\ PollErrVariant = "PollingTimeoutError"
    /\ pKind = "verification"

----------------------------------------------------------------------------
(* The last attempt decides the outcome, checked under Spec *)

\* The call came back with an error that carries a status.
StatusErr == Returned /\ IsSome(ret.err) /\ Get(ret.err).variant \in
                {"ValidationError", "AuthenticationError", "ForbiddenError",
                 "NotFoundError", "ConflictError", "RateLimitError",
                 "ServerError", "ProofError"}

\* C33: the variant and the StatusCode of the error a call returns are those
\* of the last response received in the call, not of an earlier attempt that
\* was retried: 429 followed by a status >= 500 with the retries used up
\* gives ServerError, a status >= 500 followed by 429 gives RateLimitError.
C33_LastResponseDecides ==
    /\ StatusErr =>
        /\ Len(hist) >= 1 /\ IsResp(Len(hist))
        /\ FinalStatus >= 400
        /\ ErrVariant = TableVariant(FinalStatus)
        /\ Get(ret.err).base.StatusCode = FinalStatus
    /\ (/\ Returned /\ Len(hist) >= 2
        /\ IsResp(Len(hist) - 1) /\ IsResp(Len(hist))) =>
            LET prev == hist[Len(hist) - 1].status
            IN  /\ (prev = 429 /\ FinalStatus >= 500) =>
                    /\ ErrVariant = "ServerError"
                    /\ Len(hist) = maxRetries + 1
                    /\ Get(ret.err).base.StatusCode = FinalStatus
                /\ (prev >= 500 /\ FinalStatus = 429) =>
                    /\ ErrVariant = "RateLimitError"
                    /\ Len(hist) = maxRetries + 1
                    /\ Get(ret.err).base.StatusCode = 429

C33_Witness ==
    /\ Returned
    /\ maxRetries = 2
    /\ Len(hist) = 3
    /\ IsResp(1) /\ hist[1].status = 503
    /\ IsResp(2) /\ hist[2].status = 429
    /\ IsResp(3) /\ hist[3].status = 500
    /\ ErrVariant = "ServerError"
    /\ Get(ret.err).base.StatusCode = 500

----------------------------------------------------------------------------
(* The order and the moment of the timeout check, under SpecPollLive *)

\* C34: the terminal check comes before the timeout check: a retrieval that
\* returns a terminal status ends the poll with that result as success, also
\* when the time elapsed since the start has reached or passed the timeout.
C34_TerminalBeforeTimeout ==
    \A i \in 1..Len(pollHist) :
        (RetrieveOk(i) /\ TerminalAt(i)) =>
            /\ i = Len(pollHist)
            /\ PollReturned
            /\ pret = [result |-> pollHist[i].result, err |-> None]
            /\ PollErrVariant # "PollingTimeoutError"

C34_Witness ==
    /\ PollReturned
    /\ pKind = "request"
    /\ pInterval = 10 /\ pTimeout = 30
    /\ retrievals = 4
    /\ Elapsed = 30
    /\ StatusOf(pollHist[4].result) = "completed"
    /\ pret = [result |-> pollHist[4].result, err |-> None]

\* C35: a PollingTimeoutError is never returned before the timeout has
\* elapsed since the start of the session, and after a check that found the
\* elapsed time at or past the timeout the session returns: no interval wait
\* and no further retrieval is started.
C35_TimeoutNotEarlyNorPassed ==
    /\ [](/\ PollErrVariant = "PollingTimeoutError" => Elapsed >= pTimeout
          /\ ppc = "wait" => Elapsed < pTimeout
          /\ (ppc = "call" /\ retrievals >= 1) => Elapsed - pInterval < pTimeout)
    /\ [][(/\ ppc = "retrieve" /\ ppc' # "retrieve"
           /\ now - pStart >= pTimeout) =>
                /\ ppc' = "done"
                /\ retrievals' = retrievals /\ waits' = waits]_vars
    /\ [][ppc = "done" =>
            /\ ppc' = "done" /\ pret' = pret
            /\ retrievals' = retrievals /\ waits' = waits
            /\ started' = started]_vars

C35_Witness ==
    /\ PollReturned
    /\ ~ctxDone
    /\ pInterval = 3000 /\ pTimeout = 1500
    /\ retrievals = 2 /\ waits = 1
    /\ Elapsed = 3000
    /\ PollErrVariant = "PollingTimeoutError"
    /\ started = 1

\* C39: the timeout is looked at only when a retrieval has come back: while
\* a retrieval is in progress, the retries and the backoff sleeps of the
\* transport included, the session stays in it whatever time has elapsed.
\* A retrieval starts less than one interval after the timeout instant, and
\* a session can go on past the timeout.
C39_TimeoutAfterRetrieval ==
    /\ [][(ppc = "retrieve" /\ pc # "done") =>
            /\ ppc' = "retrieve" /\ pret' = pret
            /\ retrievals' = retrievals]_vars
    /\ [](ppc = "call" => now - pStart < pTimeout + pInterval)
    /\ [](PollErrVariant = "PollingTimeoutError" =>
            /\ ppc = "done" /\ pc = "done"
            /\ RetrieveOk(Len(pollHist)))

C39_Witness ==
    /\ ppc = "retrieve"
    /\ pc = "wait"
    /\ pInterval = 10 /\ pTimeout = 30
    /\ retrievals = 4
    /\ attempt = 1
    /\ Len(hist) = 1 /\ hist[1].kind = "resp" /\ hist[1].status = 503
    /\ sleeps = <<[after |-> 0, kind |-> "backoff", ms |-> 1000]>>
    /\ now - pStart = 1030

----------------------------------------------------------------------------
(* Attempts, failures and sleeps of one call, checked under Spec *)

GenericErr == LocalError("NetworkError", "Network request failed", "network_error")

\* C36 as stated: with a negative maxRetries every call returns the
\* NetworkError with the generic message.
C36_Original ==
    (maxRetries < 0 /\ Returned) => ret = [result |-> None, err |-> Some(GenericErr)]

\* C36: with a negative maxRetries no attempt is made and nothing is slept;
\* every call whose URL parses returns the NetworkError with the message
\* "Network request failed", whatever its method and body, and a call whose
\* URL does not parse returns the NetworkError of the parse failure.  The
\* generic message is returned only when maxRetries is negative and no
\* attempt was made.
C36_NegativeRetriesNoAttempt ==
    /\ maxRetries < 0 =>
        /\ started = 0 /\ served = 0 /\ hist = <<>> /\ sleeps = <<>>
        /\ pc \in {"idle", "done"}
        /\ (Returned /\ urlOk) => ret = [result |-> None, err |-> Some(GenericErr)]
        /\ (Returned /\ ~urlOk) =>
                ret = [result |-> None,
                       err |-> Some(LocalError("NetworkError", "parse error", "network_error"))]
    /\ (Returned /\ ret.err = Some(GenericErr)) =>
        /\ maxRetries < 0
        /\ urlOk
        /\ started = 0 /\ hist = <<>>

C36_Witness ==
    /\ Returned
    /\ maxRetries = -1
    /\ urlOk
    /\ method = "POST" /\ body = "unmarshalable"
    /\ started = 0
    /\ ret.err = Some(GenericErr)

\* C37: a call that made an attempt returns a NetworkError only when its
\* last attempt failed at transport level; a failure of an earlier attempt
\* is forgotten once a later attempt gets a response that ends the call,
\* whose outcome is what that response alone gives.
C37_LastAttemptDecides ==
    /\ (Returned /\ started >= 1 /\ ErrVariant = "NetworkError") =>
        /\ hist[Len(hist)].kind = "fail"
        /\ ~hist[Len(hist)].ctx
        /\ Len(hist) = maxRetries + 1
        /\ Get(ret.err).base.Message = hist[Len(hist)].msg
    /\ (Returned /\ Len(hist) >= 1 /\ IsResp(Len(hist))) =>
        /\ IsSome(finalBody)
        /\ ret = Finalize(FinalStatus, Get(finalBody))
        /\ ErrVariant # "NetworkError"

C37_Witness ==
    /\ Returned
    /\ maxRetries = 2
    /\ Len(hist) = 2
    /\ hist[1].kind = "fail" /\ hist[1].msg = "connection refused"
    /\ IsResp(2) /\ hist[2].status = 200
    /\ lastErr = Some("connection refused")
    /\ ret.err = None
    /\ IsSome(ret.result)

\* C38: a call sleeps only between two attempts: one sleep after each
\* attempt that is followed by another, none before the first attempt and
\* none after the attempt that ends the call, so with maxRetries = 0 there
\* is no sleep.
C38_SleepsBetweenAttempts ==
    /\ \A i \in 1..Len(sleeps) : sleeps[i].after = i - 1 /\ i - 1 < maxRetries
    /\ maxRetries <= 0 => sleeps = <<>>
    /\ pc = "idle" => sleeps = <<>>
    /\ pc = "send" => Len(sleeps) = started /\ attempt = started
    /\ pc = "wait" => Len(sleeps) = started - 1 /\ attempt = started - 1
    /\ pc = "sleep" => Len(sleeps) = started /\ Len(hist) = started
                        /\ attempt = started - 1 /\ attempt < maxRetries
    /\ Returned => /\ Len(sleeps) = (IF started = 0 THEN 0 ELSE started - 1)
                   /\ Len(sleeps) = (IF Len(hist) = 0 THEN 0 ELSE Len(hist) - 1)

C38_Witness ==
    /\ Returned
    /\ maxRetries = 2
    /\ started = 3
    /\ Len(hist) = 3
    /\ Len(sleeps) = 2
    /\ hist[1].kind = "fail"
    /\ IsResp(2) /\ hist[2].status = 429
    /\ IsResp(3) /\ hist[3].status = 503

\* C40: a send that fails while the caller's context is live, the expiry of
\* the per-request timeout included, is an ordinary transport failure: it is
\* followed by the backoff sleep and another attempt while attempts remain,
\* and on the last attempt it ends the call with a NetworkError carrying its
\* message.  A TimeoutError is returned only when the caller's context is
\* done.
C40_LiveFailureIsNetworkError ==
    /\ \A i \in 1..Len(hist) :
        (hist[i].kind = "fail" /\ ~hist[i].ctx) =>
            IF i - 1 < maxRetries
            THEN /\ Len(sleeps) >= i
                 /\ sleeps[i] = [after |-> i - 1, kind |-> "backoff", ms |-> TableBackoff(i - 1)]
                 /\ (Returned => Len(hist) > i)
            ELSE /\ i = Len(hist)
                 /\ Returned
                 /\ ErrVariant = "NetworkError"
                 /\ Get(ret.err).base.Message = hist[i].msg
                 /\ Get(ret.err).base.Code = "network_error"
    /\ ErrVariant = "TimeoutError" =>
        /\ ctxDone
        /\ hist[Len(hist)].kind = "fail" /\ hist[Len(hist)].ctx

C40_Witness ==
    /\ Returned
    /\ ~ctxDone
    /\ maxRetries = 1
    /\ Len(hist) = 2
    /\ hist[1] = [kind |-> "fail", ctx |-> FALSE, msg |-> "Client.Timeout exceeded"]
    /\ hist[2] = [kind |-> "fail", ctx |-> FALSE, msg |-> "Client.Timeout exceeded"]
    /\ sleeps = <<[after |-> 0, kind |-> "backoff", ms |-> 1000]>>
    /\ ErrVariant = "NetworkError"
    /\ Get(ret.err).base.Message = "Client.Timeout exceeded"

====
